---- MODULE Spec2Model ----
(***************************************************************************)
(* A model of the Superset REST client of POWERBI_BOT                      *)
(* (src/superset_client.py).                                               *)
(*                                                                         *)
(* Spec         one call of the request executor SupersetClient._request   *)
(*              on a fresh client, with the credential cache               *)
(*              (_auth_headers, _ensure_token, _get_csrf_token); the       *)
(*              server answers every HTTP exchange with any status or      *)
(*              with a network exception.                                  *)
(* SpecSession  a sequence of such calls on one client.                    *)
(* SpecFind     the dataset resolver SupersetClient._find_dataset with     *)
(*              its four strategies; a call of _request made by a          *)
(*              strategy is represented by the way it ends.                *)
(* SpecLayout   one call of SupersetClient.add_charts_to_dashboard, on     *)
(*              the API path (_add_charts_to_dashboard_api) or on the      *)
(*              direct-store path, with the position document it writes.   *)
(* SpecCreate   calls of create_dataset, create_chart and                  *)
(*              create_dashboard against a platform that holds datasets,   *)
(*              charts and dashboards.                                     *)
(* SpecFlow     the dashboard generation flow of src/streamlit_app.py      *)
(*              (review form, building run, verification) over the         *)
(*              creators; a call of add_charts_to_dashboard is             *)
(*              represented by the way it ends.                            *)
(* SpecPlan     a chart plan of src/ai_manager.py on its way to            *)
(*              create_chart: validated against the columns of the         *)
(*              table, edited in the review form and built, or turned      *)
(*              into params by the chat handler.                           *)
(* SpecRegister the sidebar's registration of the database                 *)
(*              (SupersetClient.add_database and get_database_id).         *)
(* SpecProbeWorkers  the identifier probe of _find_dataset with the        *)
(*              credential cache that the coordinating thread and the      *)
(*              worker threads of the executor share.                      *)
(* SpecChat     the dashboard generation flow together with the chat's     *)
(*              create_chart action (src/streamlit_app.py), which adds     *)
(*              a chart to the dashboard the session records.              *)
(***************************************************************************)
EXTENDS Integers, Sequences, FiniteSets, TLC

(* ------------------------------ bounds -------------------------------- *)

\* Largest value of the `retries` keyword a caller passes to _request.
MaxRetries == 3

\* Number of _request calls a behaviour of SpecSession makes.
MaxCalls == 2

\* Largest identifier of the parallel probe, range(1, 1001) in the code.
MaxProbeId == 3

\* Worker threads of the probe's pool, max_workers = 50 in the code.
MaxWorkers == 2

\* Largest number of datasets registered on the platform.
MaxDatasets == 2

\* Longest list of chart ids handed to add_charts_to_dashboard, and the
\* largest chart id.
MaxCharts == 3

\* Number of times the review form is submitted.
MaxBuilds == 1

\* Largest seed of the uuid4 generator: runs with different seeds draw
\* different identifiers.
MaxSeed == 1

\* Largest number of columns of a dataset.
MaxColumns == 3

\* Largest number of databases registered on the platform.
MaxDatabases == 2

\* Largest number of access tokens the platform issues to the client.
MaxLogins == 2

\* Largest number of charts the chat creates in a session.
MaxChats == 1

(* ------------------------- program constants -------------------------- *)

\* cutoff=0.7 of the fuzzy match of get_llama_suggestions and cutoff=0.6 of
\* smart_match, in thousandths.
SuggestCutoff == 700
ChatCutoff == 600

\* max_retries = kwargs.pop("retries", 3)
DefaultRetries == 3

\* retry_delay = 2  (seconds before the first retry)
InitialRetryDelay == 2

\* self._token = None, self._csrf_token = None; also "no response yet".
None == 0

\* The static bearer value of an API key (tokens of logins are 1, 2, ...).
ApiKeyBearer == -1

\* "width": 12 of a CHART node (lines 708, 794).
FullWidth == 12

\* "height": 50 of a CHART node (lines 709, 795).
ChartHeight == 50

\* Statuses the server answers with.  requests' Response.ok is status < 400.
Statuses == {200, 400, 401, 404, 408, 422, 500, 501, 502, 503, 504}

IsOk(status) == status < 400

\* if resp.status_code in [500, 502, 503, 504, 408]
TransientStatuses == {500, 502, 503, 504, 408}

\* Outcomes of the login POST of _ensure_token: a token, a failing status
\* (raise_for_status) or a body without access_token.
LoginOutcomes == {"token", "http_error", "no_token"}

(* ------------------------------ state --------------------------------- *)

VARIABLES
    api_key,            \* TRUE iff SUPERSET_API_KEY is configured
    username_password,  \* TRUE iff username and password are configured
    token,              \* self._token: None or the cached access token
    csrf_token,         \* self._csrf_token: None or the access token it was fetched with
    issued,             \* server side: number of access tokens issued so far
    pc,                 \* position of the current _request call
    max_retries,        \* max_retries of the current call
    attempt,            \* loop index of the current call
    retry_delay,        \* retry_delay of the current call
    headers,            \* kwargs["headers"] of the current call
    resp,               \* status of the last response (None: none, or an exception)
    error,              \* the exception the call raised
    sleeps,             \* delays slept by the current call, in order
    sent,               \* HTTP requests sent by the current call
    step_sent,          \* HTTP requests sent by the current loop iteration
    reauths,            \* re-authentications (line 145-147) of the current call
    last,               \* kind of the last outcome the current call has met
    outcomes,           \* what the outcomes of the current call have been so far
    logins,             \* login POSTs performed by the client so far
    csrf_fetches,       \* CSRF GETs performed by the client so far
    bearers,            \* bearer values carried by the requests sent so far
    seen401,            \* TRUE iff some response so far was 401
    calls               \* _request calls made so far

credVars == <<api_key, username_password, token, csrf_token, issued>>
callVars == <<pc, max_retries, attempt, retry_delay, headers, resp, error>>
histVars == <<sleeps, sent, step_sent, reauths, last, outcomes, logins,
              csrf_fetches, bearers, seen401, calls>>
reqVars == <<credVars, callVars, histVars>>

VARIABLES
    datasets,           \* the datasets registered on the platform
    database_id,        \* argument of _find_dataset
    table_name,         \* argument of _find_dataset
    fpc,                \* position of _find_dataset
    trail,              \* the strategies started so far, each with its outcome
    found,              \* the value _find_dataset returns
    tasks,              \* probe: state of the future of each identifier
    results,            \* probe: result of each completed future
    consumed            \* probe: futures the as_completed loop has taken

findVars == <<datasets, database_id, table_name, fpc, trail, found, tasks,
              results, consumed>>

VARIABLES
    chart_ids,          \* argument of add_charts_to_dashboard
    lpc,                \* position of add_charts_to_dashboard
    chart_details,      \* API path: ids of the charts whose details were fetched
    position_json,      \* the layout document the current call has built
    attached,           \* platform: the position_json of the dashboard in hand
    attached_by,        \* the path that wrote `attached`
    writes,             \* the writes to the platform the call has issued
    prior,              \* platform: the charts in the layout before the call
    linked              \* platform: the charts associated with the dashboard

layoutVars == <<chart_ids, lpc, chart_details, position_json, attached,
                attached_by, writes, prior, linked>>

VARIABLES
    op,                 \* the create operation in progress
    cpc,                \* position of the create operation
    tried,              \* create_dataset: len(errors), the attempts that failed
    created,            \* the descriptor the create operation returns
    unresolved,         \* create_dataset: a duplicate signal was not resolved
    outright,           \* the API creation failed outright (no duplicate signal)
    store,              \* outcome of the direct store write of the operation
    message,            \* the error the direct store write raised
    charts,             \* platform: the ids of the charts
    dashboards,         \* platform: the ids of the dashboards
    dashboard_seq,      \* platform: the last id given to a dashboard
    ccalls,             \* create operations called so far
    previous            \* the operation called before this one and its result

callerVars == <<ccalls, previous>>
platformVars == <<charts, dashboards, dashboard_seq>>
createLocals == <<op, cpc, tried, created, unresolved, outright, store,
                  message>>
createVars == <<createLocals, platformVars, callerVars>>

VARIABLES
    session_state,          \* the keys present in st.session_state
    dashboard_plan,         \* st.session_state["dashboard_plan"]
    pending_dashboard_plan, \* st.session_state["pending_dashboard_plan"]
    current_dataset_id,     \* st.session_state["current_dataset_id"]
    current_dashboard_id,   \* st.session_state["current_dashboard_id"]
    created_dashboard_id,   \* st.session_state["created_dashboard_id"]
    created_dashboard_url,  \* st.session_state["created_dashboard_url"]
    bpc,                    \* position of the script run that builds
    next_chart,             \* build: position of the chart loop in the plan
    created_chart_ids,      \* build: created_chart_ids
    warnings,               \* build: the plan items reported as failed
    attempted,              \* build: each create_chart call made and how it went
    reported,               \* what the last run reported (st.status)
    run_calls,              \* build: the client operations the run has called
    builds                  \* form submissions so far

flowVars == <<session_state, dashboard_plan, pending_dashboard_plan,
              current_dataset_id, current_dashboard_id, created_dashboard_id,
              created_dashboard_url, bpc, next_chart, created_chart_ids,
              warnings, attempted, reported, run_calls, builds>>

VARIABLES
    columns,            \* the columns of the dataset, in order: name and dtype
    suggested,          \* the chart plan as the language model returned it
    chart_plan,         \* the chart plan in hand
    ppc,                \* what has been done with the plan
    params              \* the column names passed to create_chart

planVars == <<columns, suggested, chart_plan, ppc, params>>

VARIABLES
    databases,          \* platform: the registered databases, id and name
    database_name,      \* argument of add_database
    dbpc,               \* position of add_database
    existing_id,        \* add_database: result of the lookup before the POST
    post_error,         \* add_database: the way the POST failed
    final_check_id,     \* add_database: result of the lookup after the POST
    db_returned,        \* what add_database returns
    superset_db_id      \* st.session_state["superset_db_id"]

registerVars == <<databases, database_name, dbpc, existing_id, post_error,
                  final_check_id, db_returned, superset_db_id>>

VARIABLES
    probe_pc,           \* the coordinating thread: before or in the probe
    wpc,                \* position of each worker thread of the executor
    wattempt,           \* loop index of the _request call of each worker
    next_pid,           \* the next identifier the executor hands out
    cred_writes         \* assignments to self._token and self._csrf_token

workerVars == <<probe_pc, wpc, wattempt, next_pid, cred_writes>>

VARIABLES
    chats,              \* create_chart actions the chat has handled
    chat_calls,         \* how the client calls of the last of them ended
    chat_dash,          \* the dashboard id it passed to add_charts_to_dashboard
    chat_reply          \* the kind of message the assistant replied with

chatVars == <<chats, chat_calls, chat_dash, chat_reply>>

\* The variables outside each component.  The creators register datasets on
\* the platform the resolver reads.
findLocals == <<fpc, trail, found, tasks, results, consumed>>
nonRequestVars == <<findVars, layoutVars, createVars, flowVars, planVars,
                   registerVars, workerVars,
    chatVars>>
nonFindVars == <<reqVars, layoutVars, createVars, flowVars, planVars,
                   registerVars, workerVars,
    chatVars>>
nonLayoutVars == <<reqVars, findVars, createVars, flowVars, planVars,
                   registerVars, workerVars,
    chatVars>>
nonCreateVars == <<reqVars, layoutVars, database_id, table_name, findLocals,
                   flowVars, planVars, registerVars, workerVars,
    chatVars>>
nonFlowVars == <<reqVars, database_id, table_name, findLocals, callerVars,
                 planVars, registerVars, workerVars,
    chatVars>>
nonPlanVars == <<reqVars, findVars, layoutVars, createVars, flowVars,
                 registerVars, workerVars,
    chatVars>>
nonRegisterVars == <<reqVars, findVars, layoutVars, createVars, flowVars,
                     planVars, workerVars,
    chatVars>>
nonWorkerVars == <<api_key, username_password, callVars, histVars, findVars,
                   layoutVars, createVars, flowVars, planVars, registerVars,
                   chatVars>>

NoHeaders == [auth |-> None, csrf |-> None]
NoError == [wrapped |-> FALSE, attempts |-> 0, cause |-> "none", status |-> None,
            details |-> ""]


(* ----------------------- the credential cache ------------------------- *)

\* An _ensure_token that ignores the cached token and logs in every time.
EnsureTokenNoCache(tk, login) ==
    IF ~username_password
    THEN [raised |-> TRUE, token |-> None, posted |-> 0]
    ELSE IF login # "token"
    THEN [raised |-> TRUE, token |-> None, posted |-> 1]
    ELSE [raised |-> FALSE, token |-> issued + 1, posted |-> 1]

\* _ensure_token: the cached token if there is one; otherwise a login POST,
\* which needs username and password and caches the token it obtains.
EnsureToken(tk, login) ==
    IF tk # None
    THEN [raised |-> FALSE, token |-> tk, posted |-> 0]
    ELSE IF ~username_password
    THEN [raised |-> TRUE, token |-> None, posted |-> 0]
    ELSE IF login # "token"
    THEN [raised |-> TRUE, token |-> None, posted |-> 1]
    ELSE [raised |-> FALSE, token |-> issued + 1, posted |-> 1]

\* _get_csrf_token: a GET carrying the access token tk; any failure gives None.
GetCsrfToken(tk, fetched) == IF fetched THEN tk ELSE None

\* _auth_headers, run with cached token tk: the static bearer of the API key,
\* or the login token plus the CSRF token (fetched when none is cached).
AuthHeaders(tk, login, fetched) ==
    IF api_key
    THEN [raised |-> FALSE, headers |-> [auth |-> ApiKeyBearer, csrf |-> None],
          token |-> tk, csrf_token |-> csrf_token, posted |-> 0, got |-> 0]
    ELSE LET e == EnsureToken(tk, login) IN
         IF e.raised
         THEN [raised |-> TRUE, headers |-> NoHeaders, token |-> e.token,
               csrf_token |-> csrf_token, posted |-> e.posted, got |-> 0]
         ELSE LET c == IF csrf_token = None
                       THEN GetCsrfToken(e.token, fetched)
                       ELSE csrf_token
              IN [raised |-> FALSE, headers |-> [auth |-> e.token, csrf |-> c],
                  token |-> e.token, csrf_token |-> c, posted |-> e.posted,
                  got |-> IF csrf_token = None THEN 1 ELSE 0]

\* The effect of one run of _auth_headers on the cache and on the counters.
Authenticate(a) ==
    /\ token' = a.token
    /\ csrf_token' = a.csrf_token
    /\ issued' = IF a.posted = 1 /\ ~a.raised THEN issued + 1 ELSE issued
    /\ logins' = logins + a.posted
    /\ csrf_fetches' = csrf_fetches + a.got
    /\ UNCHANGED <<api_key, username_password>>

(* ------------------------ the request executor ------------------------ *)

\* A loop that forgets to double the delay.
NextDelayFlat(d) == d

\* retry_delay *= 2
NextDelay(d) == d * 2

\* Lines 151-159: the details the message of the error gets besides the
\* status: the body of the response when the status is 422, nothing otherwise.
Details(status) == IF status = 422 THEN "body" ELSE ""

\* A loop body that hands the last response to the caller when the retries
\* of a transient status are used up.
ClassifyReturnsLast(status) ==
    IF ~IsOk(status) /\ status < 500 /\ status # 408
    THEN "raise_client"
    ELSE IF status \in TransientStatuses /\ attempt < max_retries - 1
    THEN "retry"
    ELSE "return"

\* Lines 151-176: what the loop body does with a response of this status.
Classify(status) ==
    IF ~IsOk(status) /\ status < 500 /\ status # 408
    THEN "raise_client"
    ELSE IF status \in TransientStatuses /\ attempt < max_retries - 1
    THEN "retry"
    ELSE IF ~IsOk(status)
    THEN "raise_after_retries"
    ELSE "return"

\* An except clause whose bound is off by one: it sleeps after the last
\* attempt too and lets the loop run out.
ExceptClauseOffByOne == IF attempt < max_retries THEN "retry" ELSE "raise"

\* Lines 177-184: the except clause of the loop body.
ExceptClause == IF attempt < max_retries - 1 THEN "retry" ELSE "raise"

\* The try block spans the whole loop body, so the RuntimeErrors the body
\* raises itself reach the except clause like any other exception.
Caught(verdict) ==
    IF verdict \in {"raise_client", "raise_after_retries"}
    THEN ExceptClause
    ELSE verdict

\* The kind of a response status.
Kind(status) ==
    IF IsOk(status) THEN "ok"
    ELSE IF status = 401 THEN "unauthorized"
    ELSE IF status \in TransientStatuses THEN "transient"
    ELSE IF status < 500 THEN "client"
    ELSE "server_other"

\* The outcomes of a call so far: "transient" while every outcome was a
\* transient status, "exceptions" while every outcome was a network
\* exception, "faults" when both and nothing else occurred, "mixed" otherwise.
Mix(sofar, kind) ==
    IF kind \notin {"transient", "exception"} \/ sofar = "mixed" THEN "mixed"
    ELSE IF kind = "transient" /\ sofar \in {"none", "transient"} THEN "transient"
    ELSE IF kind = "exception" /\ sofar \in {"none", "exceptions"} THEN "exceptions"
    ELSE "faults"

\* The call meets an outcome of this kind.
Meet(kind) ==
    /\ last' = kind
    /\ outcomes' = Mix(outcomes, kind)

\* The loop control after the n-th request of this iteration: return the
\* response, sleep and go to the next iteration, or raise the wrapped cause.
Advance(v, cause, status, n) ==
    CASE v = "return" ->
            /\ pc' = "returned"
            /\ step_sent' = n
            /\ UNCHANGED <<attempt, retry_delay, sleeps, error>>
      [] v = "retry" ->
            /\ sleeps' = Append(sleeps, retry_delay)
            /\ retry_delay' = NextDelay(retry_delay)
            /\ attempt' = attempt + 1
            /\ pc' = IF attempt + 1 < max_retries THEN "send" ELSE "returned_none"
            /\ step_sent' = 0
            /\ UNCHANGED error
      [] v = "raise" ->
            /\ pc' = "raised"
            /\ error' = [wrapped |-> TRUE, attempts |-> max_retries,
                         cause |-> cause, status |-> status,
                         details |-> Details(status)]
            /\ step_sent' = n
            /\ UNCHANGED <<attempt, retry_delay, sleeps>>

\* Lines 101-114: a caller calls _request(method, endpoint, retries = r).
\* The headers are built before the loop, outside its try block.
Call(r) ==
    /\ pc \in {"idle", "returned", "returned_none", "raised"}
    /\ calls' = calls + 1
    /\ \E login \in LoginOutcomes, fetched \in BOOLEAN :
          LET a == AuthHeaders(token, login, fetched) IN
            /\ Authenticate(a)
            /\ headers' = a.headers
            /\ pc' = IF a.raised THEN "raised"
                     ELSE IF r = 0 THEN "returned_none" ELSE "send"
            /\ error' = IF a.raised
                        THEN [wrapped |-> FALSE, attempts |-> 0,
                              cause |-> "auth", status |-> None,
                              details |-> ""]
                        ELSE NoError
            /\ last' = IF a.raised THEN "auth_failed" ELSE "none"
            /\ outcomes' = IF a.raised THEN "mixed" ELSE "none"
    /\ max_retries' = r
    /\ attempt' = 0
    /\ retry_delay' = InitialRetryDelay
    /\ resp' = None
    /\ sleeps' = <<>>
    /\ sent' = 0
    /\ step_sent' = 0
    /\ reauths' = 0
    /\ UNCHANGED <<bearers, seen401>>
    /\ UNCHANGED nonRequestVars

\* Line 120: the request of a loop iteration, and lines 151-184 on its
\* outcome unless that is a 401.
Send ==
    /\ pc = "send"
    /\ sent' = sent + 1
    /\ bearers' = bearers \cup {headers.auth}
    /\ \E o \in Statuses \cup {None} :
          /\ resp' = o
          /\ IF o = None
             THEN /\ Meet("exception")
                  /\ Advance(ExceptClause, "network", None, step_sent + 1)
                  /\ UNCHANGED seen401
             ELSE IF o = 401
             THEN /\ Meet("unauthorized")
                  /\ seen401' = TRUE
                  /\ pc' = "reauth"
                  /\ step_sent' = step_sent + 1
                  /\ UNCHANGED <<attempt, retry_delay, sleeps, error>>
             ELSE /\ Meet(Kind(o))
                  /\ Advance(Caught(Classify(o)), Classify(o), o, step_sent + 1)
                  /\ UNCHANGED seen401
    /\ UNCHANGED <<credVars, max_retries, headers, reauths, logins,
                   csrf_fetches, calls>>
    /\ UNCHANGED nonRequestVars

\* A 401 handler that, having built new headers, leaves the re-send to the
\* next loop iteration (after a sleep) instead of re-sending at once.
ReauthNextAttempt ==
    /\ pc = "reauth"
    /\ reauths' = reauths + 1
    /\ \E login \in LoginOutcomes, fetched \in BOOLEAN :
          LET a == AuthHeaders(None, login, fetched) IN
            /\ Authenticate(a)
            /\ IF a.raised
               THEN /\ Meet("auth_failed")
                    /\ Advance(ExceptClause, "auth", None, step_sent)
                    /\ UNCHANGED headers
               ELSE /\ headers' = a.headers
                    /\ Advance(ExceptClause, "client", 401, step_sent)
                    /\ UNCHANGED <<last, outcomes>>
    /\ UNCHANGED <<max_retries, resp, sent, bearers, seen401, calls>>
    /\ UNCHANGED nonRequestVars

\* Lines 143-147: on a 401 the cached token is cleared and the headers are
\* built again, inside the try block.
Reauth ==
    /\ pc = "reauth"
    /\ reauths' = reauths + 1
    /\ \E login \in LoginOutcomes, fetched \in BOOLEAN :
          LET a == AuthHeaders(None, login, fetched) IN
            /\ Authenticate(a)
            /\ IF a.raised
               THEN /\ Meet("auth_failed")
                    /\ Advance(ExceptClause, "auth", None, step_sent)
                    /\ UNCHANGED headers
               ELSE /\ headers' = a.headers
                    /\ pc' = "resend"
                    /\ UNCHANGED <<last, outcomes, attempt, retry_delay, sleeps, error,
                                   step_sent>>
    /\ UNCHANGED <<max_retries, resp, sent, bearers, seen401, calls>>
    /\ UNCHANGED nonRequestVars

\* Line 148: the request is sent again in the same iteration, and lines
\* 151-184 run on its outcome.
Resend ==
    /\ pc = "resend"
    /\ sent' = sent + 1
    /\ bearers' = bearers \cup {headers.auth}
    /\ \E o \in Statuses \cup {None} :
          /\ resp' = o
          /\ IF o = None
             THEN /\ Meet("exception")
                  /\ Advance(ExceptClause, "network", None, step_sent + 1)
                  /\ UNCHANGED seen401
             ELSE /\ Meet(IF o = 401 THEN "unauthorized_again" ELSE Kind(o))
                  /\ seen401' = (seen401 \/ o = 401)
                  /\ Advance(Caught(Classify(o)), Classify(o), o, step_sent + 1)
    /\ UNCHANGED <<credVars, max_retries, headers, reauths, logins,
                   csrf_fetches, calls>>
    /\ UNCHANGED nonRequestVars

(* ------------------------ the dataset resolver ------------------------ *)

DatabaseIds == {1, 2}

TableNames == {"sales", "Sales"}

\* str.lower on the table names of the model.
Lower(name) == IF name = "Sales" THEN "sales" ELSE name

\* Identifiers datasets can have: the probed range and one beyond it.
DatasetIds == 1..(MaxProbeId + 1)

DatasetRecords == [id : DatasetIds, database : DatabaseIds, table_name : TableNames]

\* The platforms that hold at most n datasets, each with its own identifier.
RECURSIVE Platforms(_)
Platforms(n) ==
    IF n = 0
    THEN {{}}
    ELSE LET smaller == Platforms(n - 1) IN
         smaller \cup {p \cup {r} : p \in smaller,
                                   r \in {x \in DatasetRecords : x.id = n}}

\* None, where a dataset is expected.
NoDataset == [id |-> None, database |-> None, table_name |-> ""]

\* The strategies of _find_dataset in the order of the code.
Strategies == <<"filtered", "bulk", "direct", "probe">>

\* A resolver that queries the store before it scans the full listing.
NextStrategySwapped(s) ==
    CASE s = "filtered" -> "direct"
      [] s = "direct" -> "bulk"
      [] s = "bulk" -> "probe"

\* The strategy the code falls through to after strategy s.
NextStrategy(s) ==
    CASE s = "filtered" -> "bulk"
      [] s = "bulk" -> "direct"
      [] s = "direct" -> "probe"

\* A key check that compares the table names only.
CheckDatasetMatchNameOnly(ds, db, name) ==
    /\ ds.table_name # ""
    /\ Lower(ds.table_name) = Lower(name)

\* The WHERE clause of _find_dataset_direct (line 452): table_name = %s AND
\* database_id = %s, the name compared as the store compares text.
DirectRowMatch(ds, db, name) ==
    /\ ds.table_name = name
    /\ ds.database = db

\* _check_dataset_match: equal database id (compared as strings) and table
\* names equal ignoring case.
CheckDatasetMatch(ds, db, name) ==
    /\ ds.database = db
    /\ ds.table_name # ""
    /\ Lower(ds.table_name) = Lower(name)

\* The two ways a call of _request ends: it returns an ok response or raises.
RequestEndings == {"returned", "raised"}

\* The trail with the outcome of the last strategy set.
Ended(outcome) == [trail EXCEPT ![Len(trail)].outcome = outcome]

\* The trail after the last strategy ended with no match and s was started.
FallThrough(s) == Append(Ended("no_match"), [strategy |-> s, outcome |-> "running"])

\* Lines 441-443: the except clause around all of _find_dataset.
GiveUp ==
    /\ fpc' = "done"
    /\ found' = NoDataset
    /\ trail' = Ended("exception")

\* return ds
Return(ds) ==
    /\ fpc' = "done"
    /\ found' = ds
    /\ trail' = Ended("match")

\* Strategies 1 and 2 (lines 377-390 and 392-402): a listing request, then a
\* scan of the listed datasets for the first one that matches.
Listing(s) ==
    /\ fpc = s
    /\ \E ending \in RequestEndings, listed \in SUBSET datasets :
          LET matching == {ds \in listed :
                              CheckDatasetMatch(ds, database_id, table_name)}
          IN IF ending = "raised"
             THEN GiveUp
             ELSE IF matching # {}
             THEN \E ds \in matching : Return(ds)
             ELSE /\ fpc' = NextStrategy(s)
                  /\ trail' = FallThrough(NextStrategy(s))
                  /\ UNCHANGED found
    /\ UNCHANGED <<datasets, database_id, table_name, tasks, results, consumed>>
    /\ UNCHANGED nonFindVars

FindFiltered == Listing("filtered")

FindBulk == Listing("bulk")

\* _find_dataset_direct: SELECT id FROM tables WHERE table_name = %s AND
\* database_id = %s on the metadata store; any exception gives None.
FindDatasetDirect(reached) ==
    IF ~reached
    THEN {NoDataset}
    ELSE LET rows == {ds \in datasets :
                            DirectRowMatch(ds, database_id, table_name)}
         IN IF rows = {}
            THEN {NoDataset}
            ELSE {[id |-> row.id, database |-> database_id,
                   table_name |-> table_name] : row \in rows}

\* Strategy 3 (lines 404-408), and on no match the submission of the probe
\* futures (lines 413-434).
FindDirect ==
    /\ fpc = "direct"
    /\ \E reached \in BOOLEAN :
          \E direct_result \in FindDatasetDirect(reached) :
             IF direct_result # NoDataset
             THEN Return(direct_result)
             ELSE /\ fpc' = NextStrategy("direct")
                  /\ trail' = FallThrough(NextStrategy("direct"))
                  /\ UNCHANGED found
    /\ UNCHANGED <<datasets, database_id, table_name, tasks, results, consumed>>
    /\ UNCHANGED nonFindVars

\* The executor gives a queued future to a free worker thread.
ProbeStart(pid) ==
    /\ fpc \in {"probe", "shutdown"}
    /\ tasks[pid] = "queued"
    /\ Cardinality({p \in 1..MaxProbeId : tasks[p] = "running"}) < MaxWorkers
    /\ tasks' = [tasks EXCEPT ![pid] = "running"]
    /\ UNCHANGED <<datasets, database_id, table_name, fpc, trail, found,
                   results, consumed>>
    /\ UNCHANGED nonFindVars

\* check_id(pid), lines 417-431: a GET of dataset pid, which returns that
\* dataset when the request returns; a raise gives None.
ProbeCheck(pid) ==
    /\ tasks[pid] = "running"
    /\ \E ending \in RequestEndings :
          IF ending = "returned"
          THEN \E d \in {ds \in datasets : ds.id = pid} :
                  results' = [results EXCEPT ![pid] =
                     IF CheckDatasetMatch(d, database_id, table_name)
                     THEN d ELSE NoDataset]
          ELSE results' = [results EXCEPT ![pid] = NoDataset]
    /\ tasks' = [tasks EXCEPT ![pid] = "done"]
    /\ UNCHANGED <<datasets, database_id, table_name, fpc, trail, found,
                   consumed>>
    /\ UNCHANGED nonFindVars

\* A loop that returns the result of the first completed future, match or not.
CollectedFirstOnly(result, rest) ==
    IF result # NoDataset THEN "return" ELSE "exhausted"

\* Lines 435-439: what the as_completed loop does with a future's result,
\* `rest` being the futures it has not taken yet.
Collected(result, rest) ==
    IF result # NoDataset THEN "return"
    ELSE IF rest # {} THEN "continue"
    ELSE "exhausted"

\* One turn of the as_completed loop on a completed future.  A return
\* leaves the `with` block, whose exit waits for the futures still pending.
ProbeCollect(pid) ==
    /\ fpc = "probe"
    /\ tasks[pid] = "done"
    /\ pid \notin consumed
    /\ consumed' = consumed \cup {pid}
    /\ LET v == Collected(results[pid], (1..MaxProbeId) \ consumed') IN
          CASE v = "return" ->
                  /\ found' = results[pid]
                  /\ fpc' = "shutdown"
                  /\ UNCHANGED trail
            [] v = "continue" ->
                  UNCHANGED <<found, fpc, trail>>
            [] v = "exhausted" ->
                  /\ found' = NoDataset
                  /\ fpc' = "shutdown"
                  /\ UNCHANGED trail
    /\ UNCHANGED <<datasets, database_id, table_name, tasks, results>>
    /\ UNCHANGED nonFindVars

\* executor.__exit__: shutdown(wait=True) returns once every future is done,
\* and _find_dataset returns.
ProbeShutdown ==
    /\ fpc = "shutdown"
    /\ \A pid \in 1..MaxProbeId : tasks[pid] = "done"
    /\ fpc' = "done"
    /\ trail' = Ended(IF found # NoDataset THEN "match" ELSE "no_match")
    /\ UNCHANGED <<datasets, database_id, table_name, found, tasks, results,
                   consumed>>
    /\ UNCHANGED nonFindVars

\* No call of _find_dataset is in progress.
IdleFind ==
    /\ datasets = {}
    /\ database_id = 1
    /\ table_name = "sales"
    /\ fpc = "idle"
    /\ trail = <<>>
    /\ found = NoDataset
    /\ tasks = [pid \in 1..MaxProbeId |-> "queued"]
    /\ results = [pid \in 1..MaxProbeId |-> NoDataset]
    /\ consumed = {}

\* _find_dataset(database_id, table_name) is called on a platform that holds
\* some datasets, each with its own identifier.
InitFind ==
    /\ datasets \in {p \in Platforms(MaxProbeId + 1) :
                        Cardinality(p) <= MaxDatasets}
    /\ database_id \in DatabaseIds
    /\ table_name \in TableNames
    /\ fpc = "filtered"
    /\ trail = <<[strategy |-> "filtered", outcome |-> "running"]>>
    /\ found = NoDataset
    /\ tasks = [pid \in 1..MaxProbeId |-> "queued"]
    /\ results = [pid \in 1..MaxProbeId |-> NoDataset]
    /\ consumed = {}

(* ------------------------ the dashboard layout ------------------------ *)

ChartIds == 1..MaxCharts

\* A chart that an earlier call has added to the dashboard.
PriorChart == MaxCharts + 1

\* The lists of chart ids a caller passes.
ChartIdLists == UNION {[1..n -> ChartIds] : n \in 0..MaxCharts}

Seeds == 0..MaxSeed

\* uuid.uuid4().hex[:8]: the k-th identifier drawn by a run of seed `seed`.
\* Different draws give different identifiers.
Uuid(seed, k) == (MaxSeed + 1) * k + seed

\* The keys of the fixed nodes, and f"ROW-{...}", f"CHART-{...}" for the
\* i-th chart of a run.
ROOT_ID == <<"ROOT_ID", 0>>
GRID_ID == <<"GRID_ID", 0>>
RowId(seed, i) == <<"ROW", Uuid(seed, 2 * i - 1)>>
ChartNodeId(seed, i) == <<"CHART", Uuid(seed, 2 * i)>>

\* A node of the document.  Only CHART nodes have chartId, width and height
\* in their meta; ROOT has no "parents" key, modelled as the empty list.
Node(type, id, children, parents, chartId) ==
    [type |-> type, id |-> id, children |-> children, parents |-> parents,
     chartId |-> chartId,
     width |-> IF type = "CHART" THEN FullWidth ELSE None,
     height |-> IF type = "CHART" THEN ChartHeight ELSE None]

\* A composer that leaves the children of GRID as they were initialised.
GridChildrenInitial(seed, n) == <<>>

\* grid_children after the loop, assigned to GRID at lines 714 and 809.
GridChildren(seed, n) == [i \in 1..n |-> RowId(seed, i)]

\* The document both paths build for the charts `cids` (lines 680-714 and
\* 752-809), without its DASHBOARD_VERSION_KEY entry: one ROW and one CHART
\* node per element of cids.
PositionJson(cids, seed) ==
    LET n == Len(cids)
        rows == {RowId(seed, i) : i \in 1..n}
        cells == {ChartNodeId(seed, i) : i \in 1..n}
        index(k) == CHOOSE i \in 1..n : k \in {RowId(seed, i), ChartNodeId(seed, i)}
    IN [k \in {ROOT_ID, GRID_ID} \cup rows \cup cells |->
          CASE k = ROOT_ID -> Node("ROOT", k, <<GRID_ID>>, <<>>, None)
            [] k = GRID_ID ->
                  Node("GRID", k, GridChildren(seed, n), <<ROOT_ID>>, None)
            [] k \in rows ->
                  Node("ROW", k, <<ChartNodeId(seed, index(k))>>,
                       <<ROOT_ID, GRID_ID>>, None)
            [] OTHER ->
                  Node("CHART", k, <<>>,
                       <<ROOT_ID, GRID_ID, RowId(seed, index(k))>>,
                       cids[index(k)])]

\* A dashboard without layout nodes ({"DASHBOARD_VERSION_KEY": "v2"}).
NoLayout == [k \in {} |-> None]

\* Lines 761-768: the details of the charts whose GET returned, in the order
\* of chart_ids; `fetched` are the positions whose GET returned.
RECURSIVE ChartDetails(_, _, _)
ChartDetails(ids, fetched, i) ==
    IF i > Len(ids)
    THEN <<>>
    ELSE (IF i \in fetched THEN <<ids[i]>> ELSE <<>>)
            \o ChartDetails(ids, fetched, i + 1)

\* A write of the dashboard's position_json by a path (the PUT of line 824,
\* the UPDATE of line 718), and whether it completed.
LayoutWrite(path, completed) ==
    [kind |-> "layout", path |-> path, completed |-> completed]

\* The writes that link each chart of ids to the dashboard (the PUT of line
\* 835, the INSERT of line 723), in the order of ids.
LinkWrites(path, ids) ==
    [i \in 1..Len(ids) |-> [kind |-> "link", path |-> path, chart |-> ids[i]]]

\* A direct path that links the charts before it writes the layout.
DirectStatementsLinksFirst(ids, updated) ==
    LinkWrites("direct", ids) \o <<LayoutWrite("direct", updated)>>

\* The statements of the direct path in the order of lines 716-723: the
\* UPDATE of the layout, then one INSERT per chart id.
DirectStatements(ids, updated) ==
    <<LayoutWrite("direct", updated)>> \o LinkWrites("direct", ids)

\* The statements the direct path has executed when it ends: the first
\* `executed` ones, the last of which failed when `fault`.
DirectWrites(ids, executed, fault) ==
    SubSeq(DirectStatements(ids, ~(fault /\ executed = 1)), 1, executed)

\* Step 1 of _add_charts_to_dashboard_api (lines 745-746): the dashboard is
\* fetched; a raise is caught by add_charts_to_dashboard, which goes on with
\* the direct path (lines 660-662).
ApiGetDashboard ==
    /\ lpc = "get_dashboard"
    /\ \E ending \in RequestEndings :
          lpc' = (IF ending = "returned" THEN "details" ELSE "direct")
    /\ UNCHANGED <<chart_ids, chart_details, position_json, attached,
                   attached_by, writes, prior, linked>>
    /\ UNCHANGED nonLayoutVars

\* Step 2 (lines 752-809): the details of each chart are fetched, a failure
\* being skipped, and the document is built from the details obtained.
ApiBuildPosition ==
    /\ lpc = "details"
    /\ \E fetched \in SUBSET (1..Len(chart_ids)) : \E seed \in Seeds :
          /\ chart_details' = ChartDetails(chart_ids, fetched, 1)
          /\ position_json' = PositionJson(chart_details', seed)
    /\ lpc' = "put"
    /\ UNCHANGED <<chart_ids, attached, attached_by, writes, prior, linked>>
    /\ UNCHANGED nonLayoutVars

\* Step 4 (lines 824-828): the dashboard is updated with the document.
ApiUpdateDashboard ==
    /\ lpc = "put"
    /\ \E ending \in RequestEndings :
          /\ writes' = Append(writes, LayoutWrite("api", ending = "returned"))
          /\ IF ending = "returned"
             THEN /\ attached' = position_json
                  /\ attached_by' = "api"
                  /\ lpc' = "link"
             ELSE /\ lpc' = "direct"
                  /\ UNCHANGED <<attached, attached_by>>
    /\ UNCHANGED <<chart_ids, chart_details, position_json, prior, linked>>
    /\ UNCHANGED nonLayoutVars

\* Step 5 (lines 833-839): one PUT per chart id links the chart; a PUT that
\* raises is skipped, so that the call returns in every case.  `put` are
\* the positions of chart_ids whose PUT returned.
ApiLinkCharts ==
    /\ lpc = "link"
    /\ lpc' = "returned"
    /\ writes' = writes \o LinkWrites("api", chart_ids)
    /\ \E put \in SUBSET (1..Len(chart_ids)) :
          linked' = linked \cup {chart_ids[i] : i \in put}
    /\ UNCHANGED <<chart_ids, chart_details, position_json, attached,
                   attached_by, prior>>
    /\ UNCHANGED nonLayoutVars

\* A direct path whose connection commits every statement as it is executed:
\* a failure leaves the statements executed before it in the store.
AddChartsDirectAutocommit ==
    /\ lpc = "direct"
    /\ \E executed \in 0..(Len(chart_ids) + 1) : \E fault \in BOOLEAN :
       \E seed \in Seeds :
          LET done == IF fault THEN executed - 1 ELSE executed IN
          /\ fault => executed >= 1
          /\ ~fault => executed \in {0, Len(chart_ids) + 1}
          /\ writes' = writes \o DirectWrites(chart_ids, executed, fault)
          /\ position_json' = PositionJson(chart_ids, seed)
          /\ attached' = (IF done >= 1 THEN position_json' ELSE attached)
          /\ attached_by' = (IF done >= 1 THEN "direct" ELSE attached_by)
          /\ linked' = linked \cup {chart_ids[i] : i \in 1..(IF done >= 1 THEN done - 1 ELSE 0)}
          /\ lpc' = (IF done = Len(chart_ids) + 1 THEN "returned" ELSE "raised")
    /\ UNCHANGED <<chart_ids, chart_details, prior>>
    /\ UNCHANGED nonLayoutVars

\* _add_charts_to_dashboard_direct (lines 664-737): in one transaction the
\* document built from chart_ids is written and every chart is linked.  The
\* connection (line 676), any statement or the commit can fail: `executed`
\* statements were executed, the last of them failing when `fault`; a
\* failure rolls back and raises.
AddChartsDirect ==
    /\ lpc = "direct"
    /\ \E executed \in 0..(Len(chart_ids) + 1) : \E fault, committed \in BOOLEAN :
       \E seed \in Seeds :
          /\ committed => (executed = Len(chart_ids) + 1 /\ ~fault)
          /\ fault => executed >= 1
          /\ (~fault /\ ~committed) => executed \in {0, Len(chart_ids) + 1}
          /\ writes' = writes \o DirectWrites(chart_ids, executed, fault)
          /\ IF committed
             THEN /\ position_json' = PositionJson(chart_ids, seed)
                  /\ attached' = position_json'
                  /\ attached_by' = "direct"
                  /\ linked' = linked \cup {chart_ids[i] : i \in 1..Len(chart_ids)}
                  /\ lpc' = "returned"
             ELSE /\ lpc' = "raised"
                  /\ UNCHANGED <<position_json, attached, attached_by, linked>>
    /\ UNCHANGED <<chart_ids, chart_details, prior>>
    /\ UNCHANGED nonLayoutVars

\* No call of add_charts_to_dashboard is in progress.
IdleLayout ==
    /\ chart_ids = <<>>
    /\ lpc = "idle"
    /\ chart_details = <<>>
    /\ position_json = NoLayout
    /\ attached = NoLayout
    /\ attached_by = "none"
    /\ writes = <<>>
    /\ prior = <<>>
    /\ linked = {}

\* add_charts_to_dashboard(dashboard_id, chart_ids) is called for a new
\* dashboard, or for one that an earlier call has given a chart.
InitLayout ==
    /\ chart_ids \in ChartIdLists
    /\ lpc = "get_dashboard"
    /\ chart_details = <<>>
    /\ position_json = NoLayout
    /\ prior \in {<<>>, <<PriorChart>>}
    /\ attached = (IF prior = <<>> THEN NoLayout ELSE PositionJson(prior, 0))
    /\ attached_by = "none"
    /\ writes = <<>>
    /\ linked = {prior[i] : i \in 1..Len(prior)}

(* ------------------------- the resource creators ---------------------- *)

\* endpoints and payloads of create_dataset (lines 302-317); the loops try
\* every endpoint with every payload.
Endpoints == <<"api/v1/dataset", "api/v1/dataset/">>
Payloads == <<"database_id", "database_object">>
Attempts == Len(Endpoints) * Len(Payloads)

\* No descriptor: the operation has not returned.
NoResource == [id |-> None, via |-> "none"]

\* The ways a creation POST of a dataset ends: the platform registers the
\* dataset and answers ok, it answers 422 (a duplicate or another validation
\* error: _request raises with "422" in its message), or the request fails
\* in another way.
DatasetPostEndings == {"created", "unprocessable", "failed"}

\* The ways a direct write to the metadata store ends (lines 564-582,
\* 638-650).
StoreOutcomes == {"committed", "unreachable", "undefined_table", "error"}

\* The RuntimeError a direct store write raises for each way it fails
\* (_create_chart_direct lines 564-582, _create_dashboard_direct lines
\* 638-650, which has no clause for psycopg2.OperationalError).
DirectError(operation, outcome) ==
    CASE outcome = "committed" -> "none"
      [] operation = "create_chart" /\ outcome = "unreachable" ->
            "Cannot connect to PostgreSQL for metadata"
      [] operation = "create_chart" /\ outcome = "undefined_table" ->
            "Metadata table 'slices' missing"
      [] operation = "create_chart" /\ outcome = "error" ->
            "Database chart creation failed"
      [] operation = "create_dashboard" /\ outcome = "undefined_table" ->
            "Metadata table 'dashboards' missing"
      [] operation = "create_dashboard"
            /\ outcome \in {"unreachable", "error"} ->
            "Database dashboard creation failed"

\* The datasets the platform holds for exactly (database_id, table_name).
Registered == {ds \in datasets : ds.database = database_id
                                 /\ ds.table_name = table_name}

\* The identifier the platform gives to the next dataset.
NewDatasetId == CHOOSE id \in DatasetIds :
                   /\ id \notin {ds.id : ds \in datasets}
                   /\ \A other \in DatasetIds :
                         other \notin {ds.id : ds \in datasets} => id <= other

\* A resolver that returns any dataset of the platform.
FindDatasetIdsUnchecked == {None} \cup {ds.id : ds \in datasets}

\* What _find_dataset(database_id, table_name) can return (lines 374-443):
\* the id of a dataset that _check_dataset_match accepts, or None.
FindDatasetIds ==
    {None} \cup {ds.id : ds \in {d \in datasets :
                                   CheckDatasetMatch(d, database_id, table_name)}}

\* A create_dataset that raises on the first failed attempt.
NextAttemptRaise ==
    /\ tried' = tried + 1
    /\ cpc' = "raised"
    /\ UNCHANGED created

\* Lines 342-344 and 320-321: the error is recorded and the loops go on with
\* the next payload and endpoint; line 372 raises after the last one.
NextAttempt ==
    /\ tried' = tried + 1
    /\ cpc' = (IF tried + 1 = Attempts THEN "raised" ELSE "post")
    /\ UNCHANGED created

\* The operation returns the descriptor of resource id.
Returned(id, via) ==
    /\ created' = [id |-> id, via |-> via]
    /\ cpc' = "returned"

\* create_dataset starts (lines 280-319).  The listing of the databases it
\* begins with (lines 285-299) only prints, and its failure is ignored.
BeginCreateDataset ==
    /\ op' = "create_dataset"
    /\ cpc' = "post"
    /\ tried' = 0
    /\ created' = NoResource
    /\ unresolved' = FALSE
    /\ outright' = FALSE
    /\ store' = "none"
    /\ message' = "none"

\* One creation POST of create_dataset and what follows it up to the
\* resolver (lines 322-336, 346-354).  The platform registers a table once;
\* a 422 that reports a duplicate may name the existing dataset's id
\* ("Dataset <id> already exists").
PostDataset ==
    /\ op = "create_dataset"
    /\ cpc = "post"
    /\ \E ending \in DatasetPostEndings :
          CASE ending = "created" ->
                  /\ Registered = {}
                  /\ datasets' = datasets \cup
                        {[id |-> NewDatasetId, database |-> database_id,
                          table_name |-> table_name]}
                  /\ Returned(NewDatasetId, "api")
                  /\ UNCHANGED <<tried, outright>>
            [] ending = "unprocessable" ->
                  /\ \E named \in {None} \cup {ds.id : ds \in Registered} :
                        IF named # None
                        THEN Returned(named, "message")
                        ELSE /\ cpc' = "resolve"
                             /\ UNCHANGED created
                  /\ UNCHANGED <<datasets, tried, outright>>
            [] ending = "failed" ->
                  /\ NextAttempt
                  /\ outright' = TRUE
                  /\ UNCHANGED datasets
    /\ UNCHANGED <<op, unresolved, store, message, platformVars, callerVars>>
    /\ UNCHANGED nonCreateVars

\* Lines 338-344: the resolver runs on the duplicate signal; its dataset is
\* returned, and without one the attempt counts as failed.
ResolveDataset ==
    /\ op = "create_dataset"
    /\ cpc = "resolve"
    /\ \E id \in FindDatasetIds :
          IF id # None
          THEN /\ Returned(id, "resolver")
               /\ UNCHANGED <<tried, unresolved>>
          ELSE /\ NextAttempt
               /\ unresolved' = TRUE
    /\ UNCHANGED <<op, outright, store, message, datasets, platformVars, callerVars>>
    /\ UNCHANGED nonCreateVars

\* A creator whose except clause re-raises.
ExceptCreateRaise(operation) == "raised"

\* The except clauses of create_chart and create_dashboard (lines 517-522,
\* 594-596): any exception of the API path hands over to the direct
\* insertion.
ExceptCreate(operation) == "direct"

\* create_chart starts (lines 485-502).
BeginCreateChart ==
    /\ op' = "create_chart"
    /\ cpc' = "post"
    /\ tried' = 0
    /\ created' = NoResource
    /\ unresolved' = FALSE
    /\ outright' = FALSE
    /\ store' = "none"
    /\ message' = "none"

\* Lines 504-522: the chart is posted; when _request raises, whatever the
\* reason, the direct insertion follows.
PostChart ==
    /\ op = "create_chart"
    /\ cpc = "post"
    /\ \E ending \in RequestEndings :
          IF ending = "returned"
          THEN /\ charts' = charts \cup {Cardinality(charts) + 1}
               /\ Returned(Cardinality(charts) + 1, "api")
               /\ UNCHANGED outright
          ELSE /\ cpc' = ExceptCreate(op)
               /\ outright' = TRUE
               /\ UNCHANGED <<charts, created>>
    /\ UNCHANGED <<op, tried, unresolved, store, message, datasets, dashboards,
                   dashboard_seq, callerVars>>
    /\ UNCHANGED nonCreateVars

\* _create_chart_direct (lines 524-582): INSERT INTO slices ... RETURNING id.
CreateChartDirect ==
    /\ op = "create_chart"
    /\ cpc = "direct"
    /\ \E outcome \in StoreOutcomes :
          /\ store' = outcome
          /\ message' = DirectError(op, outcome)
          /\ IF outcome = "committed"
             THEN /\ charts' = charts \cup {Cardinality(charts) + 1}
                  /\ Returned(Cardinality(charts) + 1, "direct")
             ELSE /\ cpc' = "raised"
                  /\ UNCHANGED <<charts, created>>
    /\ UNCHANGED <<op, tried, unresolved, outright, datasets, dashboards,
                   dashboard_seq, callerVars>>
    /\ UNCHANGED nonCreateVars

\* create_dashboard starts (lines 584-588).
BeginCreateDashboard ==
    /\ op' = "create_dashboard"
    /\ cpc' = "post"
    /\ tried' = 0
    /\ created' = NoResource
    /\ unresolved' = FALSE
    /\ outright' = FALSE
    /\ store' = "none"
    /\ message' = "none"

\* The platform registers a dashboard under the next id.
NewDashboard ==
    /\ dashboard_seq' = dashboard_seq + 1
    /\ dashboards' = dashboards \cup {dashboard_seq + 1}

\* Lines 590-596.
PostDashboard ==
    /\ op = "create_dashboard"
    /\ cpc = "post"
    /\ \E ending \in RequestEndings :
          IF ending = "returned"
          THEN /\ NewDashboard
               /\ Returned(dashboard_seq + 1, "api")
               /\ UNCHANGED outright
          ELSE /\ cpc' = ExceptCreate(op)
               /\ outright' = TRUE
               /\ UNCHANGED <<dashboards, dashboard_seq, created>>
    /\ UNCHANGED <<op, tried, unresolved, store, message, datasets, charts, callerVars>>
    /\ UNCHANGED nonCreateVars

\* _create_dashboard_direct (lines 598-650): INSERT INTO dashboards ...
\* RETURNING id.
CreateDashboardDirect ==
    /\ op = "create_dashboard"
    /\ cpc = "direct"
    /\ \E outcome \in StoreOutcomes :
          /\ store' = outcome
          /\ message' = DirectError(op, outcome)
          /\ IF outcome = "committed"
             THEN /\ NewDashboard
                  /\ Returned(dashboard_seq + 1, "direct")
             ELSE /\ cpc' = "raised"
                  /\ UNCHANGED <<dashboards, dashboard_seq, created>>
    /\ UNCHANGED <<op, tried, unresolved, outright, datasets, charts,
                   callerVars>>
    /\ UNCHANGED nonCreateVars

\* A caller calls create operation `next` once the one before has ended,
\* and keeps what that one gave.  A behaviour repeats one operation.
Called(next) ==
    /\ cpc \in {"idle", "returned", "raised"}
    /\ op \in {"none", next}
    /\ ccalls < MaxCalls
    /\ ccalls' = ccalls + 1
    /\ previous' = [op |-> op, ended |-> cpc, id |-> created.id]
    /\ UNCHANGED <<datasets, platformVars>>
    /\ UNCHANGED nonCreateVars

CallCreateDataset == Called("create_dataset") /\ BeginCreateDataset
CallCreateChart == Called("create_chart") /\ BeginCreateChart
CallCreateDashboard == Called("create_dashboard") /\ BeginCreateDashboard

\* No create operation is in progress, on a platform without charts and
\* dashboards.
IdleCreate ==
    /\ op = "none"
    /\ cpc = "idle"
    /\ tried = 0
    /\ created = NoResource
    /\ unresolved = FALSE
    /\ outright = FALSE
    /\ store = "none"
    /\ message = "none"
    /\ charts = {}
    /\ dashboards = {}
    /\ dashboard_seq = 0
    /\ ccalls = 0
    /\ previous = [op |-> "none", ended |-> "idle", id |-> None]

\* The platform and the arguments (database_id, table_name) of the
\* create_dataset calls of a behaviour.
InitPlatform ==
    /\ datasets \in Platforms(MaxDatasets)
    /\ database_id \in DatabaseIds
    /\ table_name \in TableNames
    /\ fpc = "idle"
    /\ trail = <<>>
    /\ found = NoDataset
    /\ tasks = [pid \in 1..MaxProbeId |-> "queued"]
    /\ results = [pid \in 1..MaxProbeId |-> NoDataset]
    /\ consumed = {}

(* ----------------------- the dashboard build flow -------------------- *)

\* The states of the dashboard generation UI (streamlit_app.py, lines
\* 349-529), read off the session as the script does: no plan, the
\* confirmation flag, the building flag or a building run, the form.
FlowState ==
    IF "dashboard_plan" \notin session_state THEN "CONFIRMED"
    ELSE IF "waiting_for_dashboard_confirmation" \in session_state THEN "VERIFY"
    ELSE IF "is_building_dashboard" \in session_state \/ bpc # "none"
         THEN "BUILDING"
    ELSE "REVIEW"

\* The plan the form submits (lines 488-521): the items whose "Include"
\* box is checked, in plan order.
RECURSIVE Included(_, _, _)
Included(plan, boxes, i) ==
    IF i > Len(plan)
    THEN <<>>
    ELSE (IF i \in boxes THEN <<plan[i]>> ELSE <<>>) \o Included(plan, boxes, i + 1)

\* dashboard_url(dashboard_id)
DashboardUrl(id) == <<"superset/dashboard", id>>

\* A build that records the dashboard id only.
VerifyKeysNoUrl == {"created_dashboard_id", "waiting_for_dashboard_confirmation"}

\* The keys set at lines 472-474.
VerifyKeys == {"created_dashboard_id", "created_dashboard_url",
               "waiting_for_dashboard_confirmation"}

\* The keys "Confirm & Keep" deletes (lines 367-370).
ConfirmCleanup == {"dashboard_plan", "waiting_for_dashboard_confirmation",
                   "pending_dashboard_plan", "is_building_dashboard"}

\* A chart loop that stops at the first failure.
AfterChartStop(i, ended) ==
    IF ended = "raised" THEN Len(pending_dashboard_plan) + 1 ELSE i + 1

\* Lines 409, 455-459: the loop goes on with the next plan item whether
\* create_chart returned or raised.
AfterChart(i, ended) == i + 1

\* A build that does not report a failed chart.
WarnedSilently(ws, item) == ws

\* status.warning(f"Failed to create chart ...") at line 459.
Warned(ws, item) == Append(ws, item)

\* A build that creates the dashboard whatever the charts.
HasChartsAlways(ids) == TRUE

\* if created_chart_ids: (line 461)
HasCharts(ids) == ids # <<>>

\* The create operation has ended and its frame is gone.
EndCreate ==
    /\ op' = "none"
    /\ cpc' = "idle"
    /\ tried' = 0
    /\ created' = NoResource
    /\ unresolved' = FALSE
    /\ outright' = FALSE
    /\ store' = "none"
    /\ message' = "none"

\* "Create Dashboard" is pressed on the review form (lines 484-529).
Submit ==
    /\ FlowState = "REVIEW"
    /\ builds < MaxBuilds
    /\ \E boxes \in SUBSET (1..Len(dashboard_plan)) :
          pending_dashboard_plan' = Included(dashboard_plan, boxes, 1)
    /\ session_state' = session_state \cup
          {"pending_dashboard_plan", "is_building_dashboard"}
    /\ builds' = builds + 1
    /\ reported' = "none"
    /\ UNCHANGED <<dashboard_plan, current_dataset_id, current_dashboard_id,
                   created_dashboard_id, created_dashboard_url, bpc,
                   next_chart, created_chart_ids, warnings, attempted,
                   run_calls>>
    /\ UNCHANGED <<datasets, createLocals, platformVars, layoutVars>>
    /\ UNCHANGED nonFlowVars

\* A building run that leaves the building flag in the session.
BuildStartKeepsFlag ==
    /\ "dashboard_plan" \in session_state
    /\ "waiting_for_dashboard_confirmation" \notin session_state
    /\ "is_building_dashboard" \in session_state
    /\ bpc = "none"
    /\ UNCHANGED session_state
    /\ created_chart_ids' = <<>>
    /\ warnings' = <<>>
    /\ attempted' = <<>>
    /\ next_chart' = 1
    /\ reported' = "building"
    /\ IF current_dataset_id = None
       THEN /\ BeginCreateDataset
            /\ bpc' = "ensure_dataset"
            /\ run_calls' = {"create_dataset"}
       ELSE /\ bpc' = "charts"
            /\ run_calls' = {}
            /\ UNCHANGED createLocals
    /\ UNCHANGED <<dashboard_plan, pending_dashboard_plan, current_dataset_id,
                   current_dashboard_id, created_dashboard_id,
                   created_dashboard_url, builds>>
    /\ UNCHANGED <<datasets, platformVars, layoutVars>>
    /\ UNCHANGED nonFlowVars

\* The building run starts (lines 389-408): the flag is deleted, and the
\* dataset is created when the session has no dataset id.
BuildStart ==
    /\ "dashboard_plan" \in session_state
    /\ "waiting_for_dashboard_confirmation" \notin session_state
    /\ "is_building_dashboard" \in session_state
    /\ bpc = "none"
    /\ session_state' = session_state \ {"is_building_dashboard"}
    /\ created_chart_ids' = <<>>
    /\ warnings' = <<>>
    /\ attempted' = <<>>
    /\ next_chart' = 1
    /\ reported' = "building"
    /\ IF current_dataset_id = None
       THEN /\ BeginCreateDataset
            /\ bpc' = "ensure_dataset"
            /\ run_calls' = {"create_dataset"}
       ELSE /\ bpc' = "charts"
            /\ run_calls' = {}
            /\ UNCHANGED createLocals
    /\ UNCHANGED <<dashboard_plan, pending_dashboard_plan, current_dataset_id,
                   current_dashboard_id, created_dashboard_id,
                   created_dashboard_url, builds>>
    /\ UNCHANGED <<datasets, platformVars, layoutVars>>
    /\ UNCHANGED nonFlowVars

\* Lines 400-406: create_dataset has ended; its exception stops the run.
EnsureDataset ==
    /\ bpc = "ensure_dataset"
    /\ op = "create_dataset"
    /\ cpc \in {"returned", "raised"}
    /\ IF cpc = "returned"
       THEN /\ bpc' = "charts"
            /\ UNCHANGED reported
       ELSE /\ bpc' = "none"
            /\ reported' = "dataset_failed"
    /\ EndCreate
    /\ UNCHANGED <<session_state, dashboard_plan, pending_dashboard_plan,
                   current_dataset_id, current_dashboard_id,
                   created_dashboard_id, created_dashboard_url, next_chart,
                   created_chart_ids, warnings, attempted, run_calls, builds>>
    /\ UNCHANGED <<datasets, platformVars, layoutVars>>
    /\ UNCHANGED nonFlowVars

\* Lines 409-456: the loop calls create_chart for the next plan item.
BuildChart ==
    /\ bpc = "charts"
    /\ next_chart <= Len(pending_dashboard_plan)
    /\ BeginCreateChart
    /\ bpc' = "chart_call"
    /\ run_calls' = run_calls \cup {"create_chart"}
    /\ UNCHANGED <<session_state, dashboard_plan, pending_dashboard_plan,
                   current_dataset_id, current_dashboard_id,
                   created_dashboard_id, created_dashboard_url, next_chart,
                   created_chart_ids, warnings, attempted, reported, builds>>
    /\ UNCHANGED <<datasets, platformVars, layoutVars>>
    /\ UNCHANGED nonFlowVars

\* Lines 456-459: create_chart has ended; its id is appended, or its
\* exception is reported as a warning.
CollectChart ==
    /\ bpc = "chart_call"
    /\ op = "create_chart"
    /\ cpc \in {"returned", "raised"}
    /\ IF cpc = "returned"
       THEN /\ created_chart_ids' = Append(created_chart_ids, created.id)
            /\ UNCHANGED warnings
       ELSE /\ warnings' = Warned(warnings, pending_dashboard_plan[next_chart])
            /\ UNCHANGED created_chart_ids
    /\ attempted' = Append(attempted,
          [item |-> pending_dashboard_plan[next_chart], id |-> created.id,
           api_failed |-> outright])
    /\ next_chart' = AfterChart(next_chart, cpc)
    /\ bpc' = "charts"
    /\ EndCreate
    /\ UNCHANGED <<session_state, dashboard_plan, pending_dashboard_plan,
                   current_dataset_id, current_dashboard_id,
                   created_dashboard_id, created_dashboard_url, reported,
                   run_calls, builds>>
    /\ UNCHANGED <<datasets, platformVars, layoutVars>>
    /\ UNCHANGED nonFlowVars

\* Lines 461-464 and 476-477: after the loop the dashboard is created when
\* some chart was; otherwise the run reports that no chart was created.
BuildDashboard ==
    /\ bpc = "charts"
    /\ next_chart > Len(pending_dashboard_plan)
    /\ IF HasCharts(created_chart_ids)
       THEN /\ BeginCreateDashboard
            /\ bpc' = "dashboard_call"
            /\ run_calls' = run_calls \cup {"create_dashboard"}
            /\ UNCHANGED reported
       ELSE /\ bpc' = "none"
            /\ reported' = "no_charts"
            /\ UNCHANGED <<createLocals, run_calls>>
    /\ UNCHANGED <<session_state, dashboard_plan, pending_dashboard_plan,
                   current_dataset_id, current_dashboard_id,
                   created_dashboard_id, created_dashboard_url, next_chart,
                   created_chart_ids, warnings, attempted, builds>>
    /\ UNCHANGED <<datasets, platformVars, layoutVars>>
    /\ UNCHANGED nonFlowVars

\* Lines 464-468: create_dashboard has ended; the new dashboard's id is kept
\* and add_charts_to_dashboard is called with created_chart_ids.  An
\* exception of create_dashboard ends the run at line 478.
LinkCharts ==
    /\ bpc = "dashboard_call"
    /\ op = "create_dashboard"
    /\ cpc \in {"returned", "raised"}
    /\ IF cpc = "returned"
       THEN /\ current_dashboard_id' = created.id
            /\ session_state' = session_state \cup {"current_dashboard_id"}
            /\ chart_ids' = created_chart_ids
            /\ lpc' = "get_dashboard"
            /\ chart_details' = <<>>
            /\ position_json' = NoLayout
            /\ attached' = NoLayout
            /\ attached_by' = "none"
            /\ writes' = <<>>
            /\ prior' = <<>>
            /\ linked' = {}
            /\ bpc' = "link_call"
            /\ run_calls' = run_calls \cup {"add_charts_to_dashboard"}
            /\ UNCHANGED reported
       ELSE /\ bpc' = "none"
            /\ reported' = "process_failed"
            /\ UNCHANGED <<current_dashboard_id, session_state, run_calls,
                           layoutVars>>
    /\ EndCreate
    /\ UNCHANGED <<dashboard_plan, pending_dashboard_plan, current_dataset_id,
                   created_dashboard_id, created_dashboard_url, next_chart,
                   created_chart_ids, warnings, attempted, builds>>
    /\ UNCHANGED <<datasets, platformVars>>
    /\ UNCHANGED nonFlowVars

\* add_charts_to_dashboard as the building run sees it
\* (superset_client.py lines 652-662): the call returns when the API path
\* or, after it has raised, the direct path has written the document and the
\* links, and it raises when the direct path fails too.  The document that
\* is written is the subject of SpecLayout; the flow does not read it.
AddChartsToDashboard ==
    /\ bpc = "link_call"
    /\ lpc = "get_dashboard"
    /\ \E ending \in {"api", "direct", "raised"} :
          /\ lpc' = (IF ending = "raised" THEN "raised" ELSE "returned")
          /\ attached_by' = (IF ending = "raised" THEN attached_by ELSE ending)
          /\ \E put \in SUBSET (1..Len(chart_ids)) :
                /\ ending # "api" => put = 1..Len(chart_ids)
                /\ linked' = (IF ending = "raised" THEN linked
                              ELSE {chart_ids[i] : i \in put})
    /\ UNCHANGED <<chart_ids, chart_details, position_json, attached, writes,
                   prior>>
    /\ UNCHANGED nonLayoutVars

\* Lines 468-475 and 478-479: add_charts_to_dashboard has ended; the id and
\* the URL of the dashboard are recorded with the confirmation flag and the
\* script reruns, which clears what the run displayed; or the exception ends
\* the run.
FinishBuild ==
    /\ bpc = "link_call"
    /\ lpc \in {"returned", "raised"}
    /\ IF lpc = "returned"
       THEN /\ created_dashboard_id' = current_dashboard_id
            /\ created_dashboard_url' = DashboardUrl(current_dashboard_id)
            /\ session_state' = session_state \cup VerifyKeys
            /\ reported' = "complete"
            /\ warnings' = <<>>
            /\ attempted' = <<>>
       ELSE /\ reported' = "process_failed"
            /\ UNCHANGED <<created_dashboard_id, created_dashboard_url,
                           session_state, warnings, attempted>>
    /\ bpc' = "none"
    /\ lpc' = "idle"
    /\ chart_ids' = <<>>
    /\ chart_details' = <<>>
    /\ position_json' = NoLayout
    /\ UNCHANGED <<attached, attached_by, writes, prior, linked>>
    /\ UNCHANGED <<dashboard_plan, pending_dashboard_plan, current_dataset_id,
                   current_dashboard_id, next_chart, created_chart_ids,
                   run_calls, builds>>
    /\ UNCHANGED <<datasets, createLocals, platformVars>>
    /\ UNCHANGED nonFlowVars

\* "Confirm & Keep" (lines 362-373).
Confirm ==
    /\ FlowState = "VERIFY"
    /\ session_state' = session_state \ ConfirmCleanup
    /\ reported' = "finalized"
    /\ UNCHANGED <<dashboard_plan, pending_dashboard_plan, current_dataset_id,
                   current_dashboard_id, created_dashboard_id,
                   created_dashboard_url, bpc, next_chart, created_chart_ids,
                   warnings, attempted, run_calls, builds>>
    /\ UNCHANGED <<datasets, createLocals, platformVars, layoutVars>>
    /\ UNCHANGED nonFlowVars

\* "Reject & Delete" (lines 375-384) with delete_dashboard (lines 891-932):
\* the dashboard is deleted through the API or, when that raises, in the
\* store together with its dashboard_slices rows; an exception of the store
\* is reported.  In every case the confirmation flag is deleted, and the
\* flow has no dashboard in hand.
Reject ==
    /\ FlowState = "VERIFY"
    /\ \E ending \in RequestEndings : \E outcome \in StoreOutcomes :
          IF ending = "returned" \/ outcome = "committed"
          THEN /\ dashboards' = dashboards \ {created_dashboard_id}
               /\ reported' = "deleted"
          ELSE /\ reported' = "delete_failed"
               /\ UNCHANGED dashboards
    /\ attached' = NoLayout
    /\ attached_by' = "none"
    /\ linked' = {}
    /\ session_state' = session_state \ {"waiting_for_dashboard_confirmation"}
    /\ UNCHANGED <<dashboard_plan, pending_dashboard_plan, current_dataset_id,
                   current_dashboard_id, created_dashboard_id,
                   created_dashboard_url, bpc, next_chart, created_chart_ids,
                   warnings, attempted, run_calls, builds>>
    /\ UNCHANGED <<datasets, createLocals, charts, dashboard_seq, chart_ids,
                   lpc, chart_details, position_json, writes, prior>>
    /\ UNCHANGED nonFlowVars

\* No dashboard plan is in the session.
IdleFlow ==
    /\ session_state = {}
    /\ dashboard_plan = <<>>
    /\ pending_dashboard_plan = <<>>
    /\ current_dataset_id = None
    /\ current_dashboard_id = None
    /\ created_dashboard_id = None
    /\ created_dashboard_url = DashboardUrl(None)
    /\ bpc = "none"
    /\ next_chart = 1
    /\ created_chart_ids = <<>>
    /\ warnings = <<>>
    /\ attempted = <<>>
    /\ reported = "none"
    /\ run_calls = {}
    /\ builds = 0

\* The session after an upload (lines 327-334): a plan of chart items 1, 2,
\* ... is in the session, with the id of the dataset that create_dataset gave
\* (dataset.get("id"), None for a body without id).
InitFlow ==
    /\ session_state = {"dashboard_plan"}
    /\ dashboard_plan = [i \in 1..MaxCharts |-> i]
    /\ pending_dashboard_plan = <<>>
    /\ current_dataset_id \in {None} \cup {ds.id : ds \in datasets}
    /\ current_dashboard_id = None
    /\ created_dashboard_id = None
    /\ created_dashboard_url = DashboardUrl(None)
    /\ bpc = "none"
    /\ next_chart = 1
    /\ created_chart_ids = <<>>
    /\ warnings = <<>>
    /\ attempted = <<>>
    /\ reported = "none"
    /\ run_calls = {}
    /\ builds = 0

\* The platform of the flow: the uploaded table is registered.
InitFlowPlatform ==
    /\ datasets = {[id |-> 1, database |-> 1, table_name |-> "sales"]}
    /\ database_id = 1
    /\ table_name = "sales"
    /\ fpc = "idle"
    /\ trail = <<>>
    /\ found = NoDataset
    /\ tasks = [pid \in 1..MaxProbeId |-> "queued"]
    /\ results = [pid \in 1..MaxProbeId |-> NoDataset]
    /\ consumed = {}

(* ------------------------ charts made by the chat --------------------- *)

\* No client call was made.
NoCalls == [create_chart |-> "none", create_dashboard |-> "none",
            add_charts_to_dashboard |-> "none"]

\* The reply of the handler (streamlit_app.py lines 983-1025) once its client
\* calls have returned: `recorded` tells whether the session had a current
\* dashboard id.  dash_url is assigned at line 989 only, in the branch of a
\* recorded id; in the other branch line 1017 reads a name that was never
\* assigned, and the NameError is caught at line 1021 like a failure of
\* the client.
ChatReply(recorded) == IF recorded THEN "success" ELSE "failed"

\* The chat handles a create_chart action (lines 983-1025).  create_chart
\* returns the new chart or raises; the chart is added to the dashboard
\* whose id the session records, or else to a dashboard of the expected
\* title if list_dashboards shows one, or to a new dashboard, whose id
\* the session then records; add_charts_to_dashboard returns or raises, and
\* when it returns it has written a layout with the charts of the call whose
\* details it obtained and has linked the chart unless the PUT of the link
\* failed (the document it writes is the subject of SpecLayout).  Any
\* exception gives the failure message.
ChatCreateChart ==
    /\ bpc = "none"
    /\ chats < MaxChats
    /\ chats' = chats + 1
    /\ \E chart_end, dash_end, link_end \in RequestEndings :
       \E listed \in {None} \cup dashboards :
       \E path \in {"api", "direct"} : \E detail, put \in BOOLEAN :
       \E seed \in Seeds :
          LET recorded == /\ "current_dashboard_id" \in session_state
                          /\ current_dashboard_id # None
              new_chart_id == Cardinality(charts) + 1
              creates == ~recorded /\ listed = None
              dash_id == IF recorded THEN current_dashboard_id
                         ELSE IF listed # None THEN listed
                         ELSE dashboard_seq + 1
              laid == IF path = "direct" \/ detail
                      THEN <<new_chart_id>> ELSE <<>>
          IN
          IF chart_end = "raised"
          THEN /\ chat_calls' = [NoCalls EXCEPT !.create_chart = "raised"]
               /\ chat_reply' = "failed"
               /\ UNCHANGED <<chat_dash, session_state, current_dashboard_id,
                              platformVars, attached, attached_by, linked>>
          ELSE
          /\ charts' = charts \cup {new_chart_id}
          /\ IF creates /\ dash_end = "raised"
             THEN /\ chat_calls' = [NoCalls EXCEPT
                                       !.create_chart = "returned",
                                       !.create_dashboard = "raised"]
                  /\ chat_reply' = "failed"
                  /\ UNCHANGED <<chat_dash, session_state, current_dashboard_id,
                                 dashboards, dashboard_seq, attached,
                                 attached_by, linked>>
             ELSE
             /\ IF creates
                THEN NewDashboard
                ELSE UNCHANGED <<dashboards, dashboard_seq>>
             /\ session_state' = session_state \cup {"current_dashboard_id"}
             /\ current_dashboard_id' = dash_id
             /\ chat_dash' = dash_id
             /\ chat_calls' = [create_chart |-> "returned",
                               create_dashboard |->
                                  IF creates THEN "returned" ELSE "none",
                               add_charts_to_dashboard |-> link_end]
             /\ IF link_end = "returned"
                THEN /\ chat_reply' = ChatReply(recorded)
                     /\ attached' = PositionJson(laid, seed)
                     /\ attached_by' = path
                     /\ linked' = (IF path = "direct" \/ put
                                   THEN linked \cup {new_chart_id} ELSE linked)
                ELSE /\ chat_reply' = "failed"
                     /\ UNCHANGED <<attached, attached_by, linked>>
    /\ UNCHANGED <<dashboard_plan, pending_dashboard_plan, current_dataset_id,
                   created_dashboard_id, created_dashboard_url, bpc, next_chart,
                   created_chart_ids, warnings, attempted, reported, run_calls,
                   builds>>
    /\ UNCHANGED <<chart_ids, lpc, chart_details, position_json, writes, prior>>
    /\ UNCHANGED <<datasets, createLocals>>
    /\ UNCHANGED <<reqVars, database_id, table_name, findLocals, callerVars,
                   planVars, registerVars, workerVars>>

\* The chat has handled no create_chart action.
IdleChat ==
    /\ chats = 0
    /\ chat_calls = NoCalls
    /\ chat_dash = None
    /\ chat_reply = "none"

(* ------------------- credentials in the probe threads ----------------- *)

\* The threads: the coordinating thread, which runs _find_dataset, and the
\* worker threads of the executor, which run check_id.
Coordinator == 0
Workers == 1..MaxWorkers

\* The fields one run of _auth_headers assigns: _ensure_token assigns _token
\* after a login that gave a token (line 215), and line 89 assigns
\* _csrf_token when none is cached.
Assigned(a) ==
    (IF a.posted = 1 /\ ~a.raised THEN {"_token"} ELSE {}) \cup
    (IF a.got = 1 THEN {"_csrf_token"} ELSE {})

\* The statuses a probe request meets.  404 stands for every ending that
\* the loop of _request handles as it handles 404, by another attempt or by
\* the error: the other statuses that are not ok and the exceptions of the
\* HTTP exchange (the timeout of 2 seconds among them).
ProbeStatuses == {200, 401, 404}

\* Where a thread that enters _auth_headers goes: `sending` when the API key
\* or the cached credentials give the headers at once, otherwise to the
\* login exchange or to the GET of the CSRF token; "raise" when there is
\* nothing to log in with (line 189-190).
EnterAuthHeaders(tk, csrf, login, get, sending) ==
    IF api_key THEN sending
    ELSE IF tk = None
    THEN (IF username_password THEN login ELSE "raise")
    ELSE IF csrf = None THEN get
    ELSE sending

\* The except clause of the loop of _request (lines 177-184) in worker w:
\* another attempt with the same headers, or the error, which check_id
\* swallows (line 429-431), and the worker takes the next future.
Retry(w) ==
    IF wattempt[w] < DefaultRetries - 1
    THEN /\ wpc' = [wpc EXCEPT ![w] = "send"]
         /\ wattempt' = [wattempt EXCEPT ![w] = @ + 1]
    ELSE /\ wpc' = [wpc EXCEPT ![w] = "idle"]
         /\ wattempt' = [wattempt EXCEPT ![w] = 0]

\* The listings of the coordinating thread (lines 380-403) have run
\* _auth_headers; the probe is reached when they did not raise, and the
\* futures are submitted.
CoordinatorListing ==
    /\ probe_pc = "listing"
    /\ \E login \in LoginOutcomes, fetched \in BOOLEAN :
          LET a == AuthHeaders(token, login, fetched) IN
          /\ token' = a.token
          /\ csrf_token' = a.csrf_token
          /\ issued' = IF a.posted = 1 /\ ~a.raised THEN issued + 1 ELSE issued
          /\ cred_writes' = cred_writes \cup
                {[thread |-> Coordinator, field |-> f] : f \in Assigned(a)}
          /\ probe_pc' = IF a.raised THEN "gave_up" ELSE "probe"
    /\ UNCHANGED <<wpc, wattempt, next_pid>>
    /\ UNCHANGED nonWorkerVars

\* A free worker thread takes the next future and enters _request, whose
\* line 107 runs _auth_headers; an exception there leaves _request and is
\* swallowed by check_id.
WorkerTake(w) ==
    /\ probe_pc = "probe"
    /\ wpc[w] = "idle"
    /\ next_pid <= MaxProbeId
    /\ next_pid' = next_pid + 1
    /\ LET to == EnterAuthHeaders(token, csrf_token, "login", "csrf", "send")
       IN wpc' = [wpc EXCEPT ![w] = IF to = "raise" THEN "idle" ELSE to]
    /\ UNCHANGED <<token, csrf_token, issued, probe_pc, wattempt, cred_writes>>
    /\ UNCHANGED nonWorkerVars

\* The login exchange of _ensure_token (lines 192-216) in worker w, entered
\* from line 107 ("login") or from line 147 ("relogin"): a token is cached;
\* a failure raises, out of _request from line 107 and into the except
\* clause from line 147.
WorkerLogin(w) ==
    /\ wpc[w] \in {"login", "relogin"}
    /\ \E outcome \in LoginOutcomes :
          IF outcome = "token"
          THEN /\ issued < MaxLogins
               /\ token' = issued + 1
               /\ issued' = issued + 1
               /\ cred_writes' = cred_writes \cup
                                    {[thread |-> w, field |-> "_token"]}
               /\ wpc' = [wpc EXCEPT ![w] =
                             IF csrf_token = None
                             THEN (IF wpc[w] = "login" THEN "csrf" ELSE "recsrf")
                             ELSE (IF wpc[w] = "login" THEN "send" ELSE "resend")]
               /\ UNCHANGED wattempt
          ELSE /\ UNCHANGED <<token, issued, cred_writes>>
               /\ IF wpc[w] = "login"
                  THEN /\ wpc' = [wpc EXCEPT ![w] = "idle"]
                       /\ wattempt' = [wattempt EXCEPT ![w] = 0]
                  ELSE Retry(w)
    /\ UNCHANGED <<csrf_token, probe_pc, next_pid>>
    /\ UNCHANGED nonWorkerVars

\* The GET of the CSRF token and its assignment (lines 88-89) in worker w.
WorkerCsrf(w) ==
    /\ wpc[w] \in {"csrf", "recsrf"}
    /\ \E fetched \in BOOLEAN :
          csrf_token' = GetCsrfToken(token, fetched)
    /\ cred_writes' = cred_writes \cup {[thread |-> w, field |-> "_csrf_token"]}
    /\ wpc' = [wpc EXCEPT ![w] = IF wpc[w] = "csrf" THEN "send" ELSE "resend"]
    /\ UNCHANGED <<token, issued, probe_pc, wattempt, next_pid>>
    /\ UNCHANGED nonWorkerVars

\* The request of one loop iteration (line 119) in worker w.  On 401 the
\* worker clears the cached token (line 146) and enters _auth_headers
\* (line 147); 200 is returned to check_id; every other ending reaches the
\* except clause or the retry of a transient status.
WorkerSend(w) ==
    /\ wpc[w] = "send"
    /\ \E code \in ProbeStatuses :
          CASE code = 401 ->
                  /\ token' = None
                  /\ cred_writes' = cred_writes \cup
                                       {[thread |-> w, field |-> "_token"]}
                  /\ LET to == EnterAuthHeaders(None, csrf_token, "relogin",
                                                "recsrf", "resend")
                     IN IF to = "raise"
                        THEN Retry(w)
                        ELSE /\ wpc' = [wpc EXCEPT ![w] = to]
                             /\ UNCHANGED wattempt
            [] code = 200 ->
                  /\ wpc' = [wpc EXCEPT ![w] = "idle"]
                  /\ wattempt' = [wattempt EXCEPT ![w] = 0]
                  /\ UNCHANGED <<token, cred_writes>>
            [] OTHER ->
                  /\ Retry(w)
                  /\ UNCHANGED <<token, cred_writes>>
    /\ UNCHANGED <<csrf_token, issued, probe_pc, next_pid>>
    /\ UNCHANGED nonWorkerVars

\* The request after the re-authentication (line 148) in worker w.
WorkerResend(w) ==
    /\ wpc[w] = "resend"
    /\ \E code \in ProbeStatuses :
          IF code = 200
          THEN /\ wpc' = [wpc EXCEPT ![w] = "idle"]
               /\ wattempt' = [wattempt EXCEPT ![w] = 0]
          ELSE Retry(w)
    /\ UNCHANGED <<token, csrf_token, issued, probe_pc, next_pid, cred_writes>>
    /\ UNCHANGED nonWorkerVars

\* The worker threads that are in the login exchange.
LoginsInProgress == {w \in Workers : wpc[w] \in {"login", "relogin"}}

\* No probe is running.
IdleWorkers ==
    /\ probe_pc = "idle"
    /\ wpc = [w \in Workers |-> "idle"]
    /\ wattempt = [w \in Workers |-> 0]
    /\ next_pid = 1
    /\ cred_writes = {}

\* _find_dataset has been called and no future is submitted yet.
InitWorkers ==
    /\ probe_pc = "listing"
    /\ wpc = [w \in Workers |-> "idle"]
    /\ wattempt = [w \in Workers |-> 0]
    /\ next_pid = 1
    /\ cred_writes = {}

(* ----------------------- database registration ------------------------ *)

\* The names databases are registered under.
DatabaseNames == {"Supabase_Cloud", "supabase_cloud", "Other"}

\* str.lower on the database names of the model.
LowerDb(name) == IF name = "Supabase_Cloud" THEN "supabase_cloud" ELSE name

\* The platforms: at most MaxDatabases databases, each with its own id and
\* its own name.
DatabasePlatforms ==
    {p \in SUBSET [id : 1..MaxDatabases, name : DatabaseNames] :
        \A a, b \in p : (a.id = b.id \/ a.name = b.name) => a = b}

\* What get_database_id(name) gives (lines 240-278): the id of a database
\* of exactly that name from the filtered listing, or of a database of that
\* name ignoring case from the full listing; None when the listings do not
\* show one; and it raises when the request of list_databases fails.
GetDatabaseId(name) ==
    {[raised |-> TRUE, id |-> None]} \cup
    {[raised |-> FALSE, id |-> i] :
        i \in {None} \cup {d.id : d \in {x \in databases :
                                           LowerDb(x.name) = LowerDb(name)}}}

\* The ways POST api/v1/database/ ends: the platform registers the database;
\* it answers 422 because the name is taken ("already exists" and "422" are
\* in the message of the error _request raises); it answers 422 for another
\* validation error, such as a URI it cannot use ("422" is in the message);
\* or the request fails in another way.
DatabasePostEndings == {"created", "already_exists", "unprocessable", "failed"}

\* "already exists" in str(e) or "422" in str(e) (line 874).
SignalsDuplicate(ending) == ending \in {"already_exists", "unprocessable"}

\* Nothing returned.
NoReturn == [id |-> None, message |-> "none"]

\* The id the platform gives to the next database.
NewDatabaseId == Cardinality(databases) + 1

\* The sidebar looks the database up (streamlit_app.py lines 254-259): a
\* found id is kept in the session, otherwise add_database is called.  An
\* exception of the lookup is not caught and ends the script run.
SidebarLookup ==
    /\ dbpc = "sidebar"
    /\ \E r \in GetDatabaseId(database_name) :
          IF r.raised
          THEN dbpc' = "done" /\ UNCHANGED superset_db_id
          ELSE IF r.id # None
          THEN dbpc' = "done" /\ superset_db_id' = r.id
          ELSE dbpc' = "lookup" /\ UNCHANGED superset_db_id
    /\ UNCHANGED <<databases, database_name, existing_id, post_error,
                   final_check_id, db_returned>>
    /\ UNCHANGED nonRegisterVars

\* add_database, lines 849-852: the lookup before the creation.
AddDatabaseLookup ==
    /\ dbpc = "lookup"
    /\ \E r \in GetDatabaseId(database_name) :
          /\ existing_id' = r.id
          /\ IF r.raised
             THEN dbpc' = "raised" /\ UNCHANGED db_returned
             ELSE IF r.id # None
             THEN /\ dbpc' = "returned"
                  /\ db_returned' = [id |-> r.id, message |-> "Already exists"]
             ELSE dbpc' = "post" /\ UNCHANGED db_returned
    /\ UNCHANGED <<databases, database_name, post_error, final_check_id,
                   superset_db_id>>
    /\ UNCHANGED nonRegisterVars

\* Another session registers the database while this one is about to (the
\* parallel rerun of the comment at line 865).
ParallelRegister ==
    /\ dbpc = "post"
    /\ \A d \in databases : d.name # database_name
    /\ NewDatabaseId <= MaxDatabases
    /\ databases' = databases \cup {[id |-> NewDatabaseId,
                                     name |-> database_name]}
    /\ UNCHANGED <<database_name, dbpc, existing_id, post_error,
                   final_check_id, db_returned, superset_db_id>>
    /\ UNCHANGED nonRegisterVars

\* Lines 859-863: the POST; its response is returned, or its exception is
\* handled.
PostDatabase ==
    /\ dbpc = "post"
    /\ \E ending \in DatabasePostEndings :
          /\ ending = "created" =>
                /\ \A d \in databases : d.name # database_name
                /\ NewDatabaseId <= MaxDatabases
          /\ ending = "already_exists" =>
                \E d \in databases : d.name = database_name
          /\ IF ending = "created"
             THEN /\ databases' = databases \cup {[id |-> NewDatabaseId,
                                                   name |-> database_name]}
                  /\ db_returned' = [id |-> NewDatabaseId, message |-> "created"]
                  /\ dbpc' = "returned"
                  /\ UNCHANGED post_error
             ELSE /\ post_error' = ending
                  /\ dbpc' = "final"
                  /\ UNCHANGED <<databases, db_returned>>
    /\ UNCHANGED <<database_name, existing_id, final_check_id, superset_db_id>>
    /\ UNCHANGED nonRegisterVars

\* Lines 864-878: the lookup after the failed POST; a found id is returned,
\* id 1 is returned on the duplicate signal, and the exception is raised
\* otherwise.  An exception of the lookup leaves add_database.
FinalCheck ==
    /\ dbpc = "final"
    /\ \E r \in GetDatabaseId(database_name) :
          /\ final_check_id' = r.id
          /\ IF r.raised
             THEN dbpc' = "raised" /\ UNCHANGED db_returned
             ELSE IF r.id # None
             THEN /\ dbpc' = "returned"
                  /\ db_returned' = [id |-> r.id,
                                     message |-> "Recovered ID after failure"]
             ELSE IF SignalsDuplicate(post_error)
             THEN /\ dbpc' = "returned"
                  /\ db_returned' = [id |-> 1,
                                     message |-> "Assumed ID 1 (Fallback)"]
             ELSE dbpc' = "raised" /\ UNCHANGED db_returned
    /\ UNCHANGED <<databases, database_name, existing_id, post_error,
                   superset_db_id>>
    /\ UNCHANGED nonRegisterVars

\* The sidebar after add_database (streamlit_app.py lines 264-277): when it
\* returned, the database is looked up again and a found id is kept in the
\* session; an exception, of add_database or of the lookup, is reported (no
\* error that reaches the sidebar has "already exists" in its message).
SidebarFinish ==
    /\ dbpc \in {"returned", "raised"}
    /\ IF dbpc = "returned"
       THEN \E r \in GetDatabaseId(database_name) :
               superset_db_id' = (IF ~r.raised /\ r.id # None
                                  THEN r.id ELSE superset_db_id)
       ELSE UNCHANGED superset_db_id
    /\ dbpc' = "done"
    /\ UNCHANGED <<databases, database_name, existing_id, post_error,
                   final_check_id, db_returned>>
    /\ UNCHANGED nonRegisterVars

\* No database is being registered.
IdleRegister ==
    /\ databases = {}
    /\ database_name = "Supabase_Cloud"
    /\ dbpc = "idle"
    /\ existing_id = None
    /\ post_error = "none"
    /\ final_check_id = None
    /\ db_returned = NoReturn
    /\ superset_db_id = None

\* A session without superset_db_id starts on a platform that holds some
\* databases.
InitRegister ==
    /\ databases \in DatabasePlatforms
    /\ database_name = "Supabase_Cloud"
    /\ dbpc = "sidebar"
    /\ existing_id = None
    /\ post_error = "none"
    /\ final_check_id = None
    /\ db_returned = NoReturn
    /\ superset_db_id = None

(* ----------------------------- chart plans ---------------------------- *)

\* Python's None where a column name is expected.
Absent == "None"

\* The columns datasets of the model are made of, with the dtype pandas
\* gives each.
ColumnPool ==
    {[name |-> "region", dtype |-> "object"],
     [name |-> "sales", dtype |-> "float64"],
     [name |-> "order_date", dtype |-> "datetime64[ns]"],
     [name |-> "year", dtype |-> "int64"],
     [name |-> "segment", dtype |-> "category"],
     [name |-> "country", dtype |-> "object"]}

\* The datasets: up to MaxColumns columns of different names, in order.
Schemas ==
    {cols \in UNION {[1..n -> ColumnPool] : n \in 0..MaxColumns} :
        \A i, j \in 1..Len(cols) : cols[i].name = cols[j].name => i = j}

\* df.columns as a set (ai_manager.py line 72).
ColumnNames(cols) == {cols[i].name : i \in 1..Len(cols)}

\* df.select_dtypes(include=['number']) (line 73).
NumericCols(cols) ==
    {cols[i].name : i \in {k \in 1..Len(cols) :
                              cols[k].dtype \in {"float64", "int64"}}}

\* df.select_dtypes(include=['datetime', 'datetimetz']) (line 74).
DatetimeCols(cols) ==
    {cols[i].name : i \in {k \in 1..Len(cols) :
                              cols[k].dtype = "datetime64[ns]"}}

\* df.select_dtypes(include=['object', 'category']).columns (line 149), in
\* the order of the columns.
ObjCols(cols) == SelectSeq(cols, LAMBDA c : c.dtype \in {"object", "category"})

\* The names a language model or a user gives for a metric and for a
\* group-by column; "null" is the string, Absent a JSON null or a missing key.
MetricNames == {Absent, "sales", "Sales", "profit", "count"}
GroupNames == {Absent, "null", "region", "order_date", "year", "reg"}

\* 1000 * difflib.SequenceMatcher(None, col, raw).ratio(), rounded, for the
\* names of the model.
Ratio(raw, col) ==
    CASE raw = col -> 1000
      [] raw = "region" /\ col = "sales" -> 182
      [] raw = "region" /\ col = "order_date" -> 125
      [] raw = "region" /\ col = "year" -> 200
      [] raw = "region" /\ col = "segment" -> 462
      [] raw = "sales" /\ col = "region" -> 182
      [] raw = "sales" /\ col = "order_date" -> 133
      [] raw = "sales" /\ col = "year" -> 222
      [] raw = "sales" /\ col = "segment" -> 333
      [] raw = "order_date" /\ col = "region" -> 250
      [] raw = "order_date" /\ col = "sales" -> 267
      [] raw = "order_date" /\ col = "year" -> 286
      [] raw = "order_date" /\ col = "segment" -> 235
      [] raw = "year" /\ col = "region" -> 200
      [] raw = "year" /\ col = "sales" -> 222
      [] raw = "year" /\ col = "order_date" -> 143
      [] raw = "year" /\ col = "segment" -> 182
      [] raw = "Sales" /\ col = "region" -> 182
      [] raw = "Sales" /\ col = "sales" -> 800
      [] raw = "Sales" /\ col = "order_date" -> 133
      [] raw = "Sales" /\ col = "year" -> 222
      [] raw = "Sales" /\ col = "segment" -> 167
      [] raw = "profit" /\ col = "region" -> 333
      [] raw = "profit" /\ col = "sales" -> 0
      [] raw = "profit" /\ col = "order_date" -> 250
      [] raw = "profit" /\ col = "year" -> 200
      [] raw = "profit" /\ col = "segment" -> 154
      [] raw = "reg" /\ col = "region" -> 667
      [] raw = "reg" /\ col = "sales" -> 250
      [] raw = "reg" /\ col = "order_date" -> 308
      [] raw = "reg" /\ col = "year" -> 286
      [] raw = "reg" /\ col = "segment" -> 400
      [] raw = "null" /\ col = "region" -> 200
      [] raw = "null" /\ col = "sales" -> 222
      [] raw = "null" /\ col = "order_date" -> 0
      [] raw = "null" /\ col = "year" -> 0
      [] raw = "null" /\ col = "segment" -> 182
      [] raw = "region" /\ col = "country" -> 308
      [] raw = "sales" /\ col = "country" -> 0
      [] raw = "order_date" /\ col = "country" -> 235
      [] raw = "year" /\ col = "country" -> 182
      [] raw = "Sales" /\ col = "country" -> 0
      [] raw = "profit" /\ col = "country" -> 308
      [] raw = "reg" /\ col = "country" -> 200
      [] raw = "null" /\ col = "country" -> 182
      [] raw = "count" /\ col = "region" -> 364
      [] raw = "count" /\ col = "sales" -> 0
      [] raw = "count" /\ col = "order_date" -> 267
      [] raw = "count" /\ col = "year" -> 0
      [] raw = "count" /\ col = "segment" -> 333
      [] raw = "count" /\ col = "country" -> 833

\* difflib.get_close_matches(raw, names, n=1, cutoff): the name of the best
\* ratio that reaches the cutoff, Absent for an empty list.  No two names of
\* the model have the same ratio to a raw name at or above a cutoff.
CloseMatch(raw, names, cutoff) ==
    LET close == {c \in names : Ratio(raw, c) >= cutoff} IN
    IF close = {}
    THEN Absent
    ELSE CHOOSE c \in close : \A d \in close : Ratio(raw, d) <= Ratio(raw, c)

\* "date" in name.lower() or "year" in name.lower() or "month" in
\* name.lower() (line 142), for the names of the model.
DateNamed(name) == name \in {"order_date", "year"}

\* p["viz_type"].strip().lower() (line 101), for the values of the model.
NormalizeViz(viz) == IF viz = "LINE " THEN "line" ELSE viz

\* The chart plans a language model returns.
RawPlans ==
    [viz_type : {"line", "LINE ", "pie", "dist_bar", "big_number_total"},
     metric : MetricNames,
     group_by : GroupNames,
     agg_func : {"SUM", "COUNT"}]

\* No names: create_chart has not been called.
NoParams == [metric |-> Absent, group |-> Absent]

\* Step 3 of the validation (ai_manager.py lines 108-120): the metric is the
\* closest column, or "count".
ValidMetric(raw, cols) ==
    IF raw = Absent
    THEN "count"
    ELSE LET m == CloseMatch(raw, ColumnNames(cols), SuggestCutoff) IN
         IF m # Absent THEN m ELSE "count"

\* Lines 104-106 and 122-123: SUM of a column that is not numeric becomes
\* COUNT (the functions of the model are in the accepted list).
ValidAgg(agg, metric, cols) ==
    IF metric # "count" /\ metric \notin NumericCols(cols)
          /\ agg \in {"SUM", "AVG"}
    THEN "COUNT"
    ELSE agg

\* Step 4 (lines 125-134): "null", "none" and "" give None; another name
\* gives the closest column, or None.
ValidGroup(raw, cols) ==
    IF raw \in {Absent, "null"}
    THEN Absent
    ELSE CloseMatch(raw, ColumnNames(cols), SuggestCutoff)

\* A time test that looks at the dtype only.
IsTimeDatetimeOnly(g, cols) == g # Absent /\ g \in DatetimeCols(cols)

\* is_time of lines 138-143.
IsTime(g, cols) == g # Absent /\ (g \in DatetimeCols(cols) \/ DateNamed(g))

\* A choice of the last categorical column.
LastCategorical(cols) == ObjCols(cols)[Len(ObjCols(cols))].name

\* obj_cols[0] (line 151).
FirstCategorical(cols) == ObjCols(cols)[1].name

\* The body of the loop over the plans (lines 98-158).
ValidatedPlan(p, cols) ==
    LET viz == NormalizeViz(p.viz_type)
        metric == ValidMetric(p.metric, cols)
        agg == ValidAgg(p.agg_func, metric, cols)
        group == ValidGroup(p.group_by, cols)
        checked == IF viz = "line" /\ ~IsTime(group, cols)
                   THEN "dist_bar" ELSE viz
        bare == checked = "pie" /\ group = Absent
        filled == IF bare /\ ObjCols(cols) # <<>>
                  THEN FirstCategorical(cols) ELSE group
        final == IF bare /\ ObjCols(cols) = <<>>
                 THEN "big_number_total" ELSE checked
    IN [viz_type |-> final,
        metric |-> metric,
        group_by |-> IF final = "big_number_total" THEN Absent ELSE filled,
        agg_func |-> agg]

\* get_llama_suggestions validates the plan the model returned.
Validate ==
    /\ ppc = "suggested"
    /\ chart_plan' = ValidatedPlan(suggested, columns)
    /\ ppc' = "validated"
    /\ UNCHANGED <<columns, suggested, params>>
    /\ UNCHANGED nonPlanVars

\* The review form (streamlit_app.py lines 490-529): the user leaves or
\* retypes the metric and the group-by column of the plan ("" gives None);
\* the other widgets are left as they are.
ReviewEdit ==
    /\ ppc = "validated"
    /\ \E metric \in {chart_plan.metric, "profit"} :
       \E grp \in {chart_plan.group_by, "profit"} :
          chart_plan' = [chart_plan EXCEPT !.metric = metric, !.group_by = grp]
    /\ ppc' = "reviewed"
    /\ UNCHANGED <<columns, suggested, params>>
    /\ UNCHANGED nonPlanVars

\* The column names in the params of the building run (lines 418-456): the
\* metric unless it is "count", and the group-by column of every viz type
\* but big_number_total.
BuildColumns(p) ==
    [metric |-> IF Lower(p.metric) = "count" THEN "count" ELSE p.metric,
     group |-> IF p.viz_type = "big_number_total" THEN Absent ELSE p.group_by]

\* The building run calls create_chart for the plan.
BuildParams ==
    /\ ppc = "reviewed"
    /\ params' = BuildColumns(chart_plan)
    /\ ppc' = "build_params"
    /\ UNCHANGED <<columns, suggested, chart_plan>>
    /\ UNCHANGED nonPlanVars

\* smart_match (lines 896-905).
SmartMatch(col, options) ==
    IF col = Absent \/ Lower(col) = "count" THEN col
    ELSE IF col \in options THEN col
    ELSE IF \E o \in options : Lower(o) = Lower(col)
    THEN CHOOSE o \in options : Lower(o) = Lower(col)
    ELSE CloseMatch(col, options, ChatCutoff)

\* "Fix metric" (lines 907-914): a metric that matches no column is kept.
ChatMetric(raw, options) ==
    IF options = {} \/ SmartMatch(raw, options) = Absent
    THEN raw
    ELSE SmartMatch(raw, options)

\* "Fix group_by" (lines 916-922).
ChatGroup(raw, options) ==
    IF options = {} \/ raw = Absent
    THEN raw
    ELSE SmartMatch(raw, options)

\* The chat handler builds the params of a create_chart action (lines
\* 868-984) from the configuration the model returned: get_columns gives
\* the column names or, when its request fails, an empty list.  A metric of
\* JSON null raises at c_metric.lower(); a missing metric is "count".
ChatParams ==
    /\ ppc = "suggested"
    /\ \E fetched, missing \in BOOLEAN :
          LET options == IF fetched THEN ColumnNames(columns) ELSE {}
              c_metric == IF suggested.metric = Absent
                          THEN "count"
                          ELSE ChatMetric(suggested.metric, options)
              grp == ChatGroup(suggested.group_by, options)
          IN IF suggested.metric = Absent /\ ~missing
             THEN /\ ppc' = "chat_raised"
                  /\ UNCHANGED params
             ELSE /\ ppc' = "chat_params"
                  /\ params' =
                        [metric |-> c_metric,
                         group |-> IF suggested.viz_type = "big_number_total"
                                   THEN Absent ELSE grp]
    /\ UNCHANGED <<columns, suggested, chart_plan>>
    /\ UNCHANGED nonPlanVars

\* No plan is in hand.
IdlePlan ==
    /\ columns = <<>>
    /\ suggested = [viz_type |-> "dist_bar", metric |-> Absent,
                    group_by |-> Absent, agg_func |-> "COUNT"]
    /\ chart_plan = suggested
    /\ ppc = "idle"
    /\ params = NoParams

\* A language model has returned a plan for a dataset.
InitPlan ==
    /\ columns \in Schemas
    /\ suggested \in RawPlans
    /\ chart_plan = suggested
    /\ ppc = "suggested"
    /\ params = NoParams

InitRequest ==
    /\ api_key \in BOOLEAN
    /\ username_password \in BOOLEAN
    /\ token = None
    /\ csrf_token = None
    /\ issued = 0
    /\ pc = "idle"
    /\ max_retries = 0
    /\ attempt = 0
    /\ retry_delay = InitialRetryDelay
    /\ headers = NoHeaders
    /\ resp = None
    /\ error = NoError
    /\ sleeps = <<>>
    /\ sent = 0
    /\ step_sent = 0
    /\ reauths = 0
    /\ last = "none"
    /\ outcomes = "none"
    /\ logins = 0
    /\ csrf_fetches = 0
    /\ bearers = {}
    /\ seen401 = FALSE
    /\ calls = 0

\* No call of _request is in progress on a client that has an API key.
IdleRequest ==
    /\ InitRequest
    /\ api_key
    /\ ~username_password

vars == <<reqVars, findVars, layoutVars, createVars, flowVars, planVars,
          registerVars, workerVars, chatVars>>

Init ==
    /\ InitRequest /\ IdleFind /\ IdleLayout /\ IdleCreate /\ IdleFlow
    /\ IdlePlan /\ IdleRegister /\ IdleWorkers /\ IdleChat

\* One call of _request on a fresh client, with any `retries`.
Next ==
    \/ \E r \in 0..MaxRetries : calls = 0 /\ Call(r)
    \/ Send
    \/ Reauth
    \/ Resend

Spec == Init /\ [][Next]_vars

\* A sequence of calls of _request on one client, as the callers make them
\* (none passes `retries`).
NextSession ==
    \/ calls < MaxCalls /\ Call(DefaultRetries)
    \/ Send
    \/ Reauth
    \/ Resend

SpecSession == Init /\ [][NextSession]_vars

\* One call of _find_dataset.
NextFind ==
    \/ FindFiltered
    \/ FindBulk
    \/ FindDirect
    \/ \E pid \in 1..MaxProbeId : ProbeStart(pid)
    \/ \E pid \in 1..MaxProbeId : ProbeCheck(pid)
    \/ \E pid \in 1..MaxProbeId : ProbeCollect(pid)
    \/ ProbeShutdown

InitFindCall ==
    /\ IdleRequest /\ InitFind /\ IdleLayout /\ IdleCreate /\ IdleFlow
    /\ IdlePlan /\ IdleRegister /\ IdleWorkers /\ IdleChat

SpecFind == InitFindCall /\ [][NextFind]_vars

\* One call of add_charts_to_dashboard.
NextLayout ==
    \/ ApiGetDashboard
    \/ ApiBuildPosition
    \/ ApiUpdateDashboard
    \/ ApiLinkCharts
    \/ AddChartsDirect

InitLayoutCall ==
    /\ IdleRequest /\ IdleFind /\ InitLayout /\ IdleCreate /\ IdleFlow
    /\ IdlePlan /\ IdleRegister /\ IdleWorkers /\ IdleChat

SpecLayout == InitLayoutCall /\ [][NextLayout]_vars

\* A chart plan on its way to create_chart: validated, reviewed and built,
\* or turned into params by the chat handler.
NextPlan ==
    \/ Validate
    \/ ReviewEdit
    \/ BuildParams
    \/ ChatParams

InitPlanFlow ==
    /\ IdleRequest /\ IdleFind /\ IdleLayout /\ IdleCreate /\ IdleFlow
    /\ InitPlan /\ IdleRegister /\ IdleWorkers /\ IdleChat

SpecPlan == InitPlanFlow /\ [][NextPlan]_vars

\* The probe of _find_dataset with the credential cache its threads share.
NextProbeWorkers ==
    \/ CoordinatorListing
    \/ \E w \in Workers : WorkerTake(w)
    \/ \E w \in Workers : WorkerLogin(w)
    \/ \E w \in Workers : WorkerCsrf(w)
    \/ \E w \in Workers : WorkerSend(w)
    \/ \E w \in Workers : WorkerResend(w)

InitProbeWorkers ==
    /\ InitRequest /\ IdleFind /\ IdleLayout /\ IdleCreate /\ IdleFlow
    /\ IdlePlan /\ IdleRegister /\ InitWorkers /\ IdleChat

SpecProbeWorkers == InitProbeWorkers /\ [][NextProbeWorkers]_vars

\* The sidebar connects the platform to the database.
NextRegister ==
    \/ SidebarLookup
    \/ AddDatabaseLookup
    \/ ParallelRegister
    \/ PostDatabase
    \/ FinalCheck
    \/ SidebarFinish

InitRegisterSession ==
    /\ IdleRequest /\ IdleFind /\ IdleLayout /\ IdleCreate /\ IdleFlow
    /\ IdlePlan /\ InitRegister /\ IdleWorkers /\ IdleChat

SpecRegister == InitRegisterSession /\ [][NextRegister]_vars

\* C28: add_database returns the assumed id 1 only when the POST failed
\* because the name is taken and neither the lookup before the POST nor the
\* one after it found the database; a lookup that finds the database gives
\* the id returned, and every other failure raises.
C28_AssumedOnlyOnDuplicate ==
    /\ db_returned.message = "Assumed ID 1 (Fallback)" =>
          /\ post_error = "already_exists"
          /\ existing_id = None
          /\ final_check_id = None
    /\ db_returned.message = "Already exists" =>
          existing_id # None /\ db_returned.id = existing_id
    /\ db_returned.message = "Recovered ID after failure" =>
          final_check_id # None /\ db_returned.id = final_check_id
    /\ (dbpc = "raised" /\ post_error # "none" /\ final_check_id = None) =>
          db_returned = NoReturn

\* A sequence of create operations on one platform.
NextCreate ==
    \/ CallCreateDataset
    \/ PostDataset
    \/ ResolveDataset
    \/ CallCreateChart
    \/ PostChart
    \/ CreateChartDirect
    \/ CallCreateDashboard
    \/ PostDashboard
    \/ CreateDashboardDirect

InitCreateCalls ==
    /\ IdleRequest /\ InitPlatform /\ IdleLayout /\ IdleCreate /\ IdleFlow
    /\ IdlePlan /\ IdleRegister /\ IdleWorkers /\ IdleChat

SpecCreate == InitCreateCalls /\ [][NextCreate]_vars

\* The dashboard build flow of one plan, with the client operations its
\* runs call.
NextFlow ==
    \/ Submit
    \/ BuildStart
    \/ PostDataset
    \/ ResolveDataset
    \/ EnsureDataset
    \/ BuildChart
    \/ PostChart
    \/ CreateChartDirect
    \/ CollectChart
    \/ BuildDashboard
    \/ PostDashboard
    \/ CreateDashboardDirect
    \/ LinkCharts
    \/ AddChartsToDashboard
    \/ FinishBuild
    \/ Confirm
    \/ Reject

InitFlowSession ==
    /\ IdleRequest /\ InitFlowPlatform /\ IdleLayout /\ IdleCreate /\ InitFlow
    /\ IdlePlan /\ IdleRegister /\ IdleWorkers /\ IdleChat

SpecFlow == InitFlowSession /\ [][NextFlow]_vars

\* The session with its chat: the dashboard generation flow, and the chat's
\* create_chart actions between the script runs of the flow.
NextChat ==
    \/ NextFlow
    \/ ChatCreateChart

InitChatSession ==
    /\ IdleRequest /\ InitFlowPlatform /\ IdleLayout /\ IdleCreate /\ InitFlow
    /\ IdlePlan /\ IdleRegister /\ IdleWorkers /\ IdleChat

SpecChat == InitChatSession /\ [][NextChat]_vars

(* ------------------- claims on the request executor ------------------- *)

\* Non-retriable client errors: any 4xx other than 401 and 408.
ClientErrors == {st \in Statuses : st >= 400 /\ st < 500 /\ st \notin {401, 408}}

\* The delays of n consecutive backoff sleeps: 2 seconds, doubling each time.
Delays(n) == [i \in 1..n |-> InitialRetryDelay * 2^(i - 1)]

\* C1: when the response of a call has a non-retriable client-error status
\* (a 4xx other than 401 and 408), the call has failed at once: it has
\* raised, and when that response was the answer to the call's first request
\* no backoff sleep has occurred and no second request is sent.
C1_ClientErrorNotRetried ==
    (resp \in ClientErrors /\ last = "client") =>
        /\ pc = "raised"
        /\ (sent = 1 => sleeps = <<>>)

\* C2: while every response of a call has had a transient status (500, 502,
\* 503, 504, 408), the call has slept once between consecutive attempts, with
\* delays 2, 4, 8, ... (strictly increasing), it never returns, and it raises
\* only after exactly max_retries attempts, reporting the last status.
C2_TransientRetriedWithBackoff ==
    outcomes = "transient" =>
        /\ max_retries >= 1
        /\ sleeps = Delays(Len(sleeps))
        /\ \A i \in 1..(Len(sleeps) - 1) : sleeps[i] < sleeps[i + 1]
        /\ Len(sleeps) = attempt
        /\ pc \in {"send", "raised"}
        /\ sent = (IF pc = "send" THEN attempt ELSE attempt + 1)
        /\ pc = "raised" =>
              /\ sent = max_retries
              /\ Len(sleeps) = max_retries - 1
              /\ resp \in TransientStatuses
              /\ error.wrapped
              /\ error.cause = "raise_after_retries"
              /\ error.status = resp

\* A call with the default three retries has met three transient statuses.
C2_Witness ==
    /\ pc = "raised"
    /\ outcomes = "transient"
    /\ max_retries = DefaultRetries
    /\ sent = 3
    /\ sleeps = <<2, 4>>

\* C3: a 401 response leads, within the same loop iteration, to exactly one
\* re-authentication that clears the cached token and builds new headers,
\* and then to one re-send; when the re-sent request succeeds its response
\* is returned, and from the 401 to the return the loop index has not
\* advanced and no backoff sleep has occurred.
C3_ReauthWithinAttempt ==
    [][ /\ (pc = "send" /\ resp' = 401) =>
              /\ pc' = "reauth"
              /\ attempt' = attempt /\ sleeps' = sleeps /\ reauths' = reauths
        /\ (pc = "reauth") =>
              /\ reauths' = reauths + 1
              /\ sent' = sent
              /\ (api_key \/ token' # None) =>
                    /\ pc' = "resend"
                    /\ attempt' = attempt /\ sleeps' = sleeps
                    /\ headers'.auth = (IF api_key THEN ApiKeyBearer ELSE token')
                    /\ (~api_key => token' = issued' /\ issued' = issued + 1)
        /\ (pc = "resend") =>
              /\ pc' # "reauth"
              /\ reauths' = reauths
              /\ sent' = sent + 1
              /\ (resp' # None /\ IsOk(resp')) =>
                    /\ pc' = "returned"
                    /\ attempt' = attempt /\ sleeps' = sleeps
      ]_vars

\* The first request was answered 401, the token of the first login was
\* replaced, and the re-sent request succeeded.
C3_Witness ==
    /\ pc = "returned"
    /\ step_sent = 2
    /\ reauths = 1
    /\ attempt = 0
    /\ sleeps = <<>>
    /\ token = 2
    /\ IsOk(resp)

\* C4: when the request re-sent after the re-authentication is answered 401
\* again, the call has failed terminally (no further request, no further
\* re-authentication).
C4_Second401Terminal ==
    last = "unauthorized_again" => pc = "raised" /\ reauths = 1

\* C5: when obtaining the auth headers has failed, at the start of the call
\* or on the re-authentication after a 401, the call has raised, with no
\* backoff sleep and no further attempt.
C5_AuthFailureTerminal ==
    last = "auth_failed" => pc = "raised"

\* C6: exceptions and transient statuses share one budget: the loop index
\* stays below max_retries; a call that has met only exceptions and
\* transient statuses has sent at most max_retries requests, never returns,
\* and raises only after exactly max_retries attempts; and a call whose last
\* attempt failed with an exception raises an error wrapping that exception.
C6_SharedRetryBudget ==
    /\ pc \in {"send", "reauth", "resend"} => attempt < max_retries
    /\ outcomes \in {"transient", "exceptions", "faults"} =>
          /\ sent <= max_retries
          /\ pc \in {"send", "raised"}
          /\ sent = (IF pc = "send" THEN attempt ELSE attempt + 1)
          /\ pc = "raised" => sent = max_retries
    /\ (pc = "raised" /\ last = "exception") =>
          /\ attempt = max_retries - 1
          /\ error.wrapped
          /\ error.cause = "network"
          /\ error.attempts = max_retries

\* A call with three retries met both exceptions and transient statuses and
\* failed on an exception.
C6_Witness ==
    /\ pc = "raised"
    /\ outcomes = "faults"
    /\ last = "exception"
    /\ max_retries = DefaultRetries
    /\ sent = 3

\* C7 as stated: as long as no response was 401 the client has performed at
\* most one login exchange and every request carried the same bearer; with
\* an API key no login and no CSRF fetch is ever performed and every request
\* carries the static bearer.
C7_AtMostOneLoginExchange ==
    /\ ~seen401 => logins <= 1 /\ Cardinality(bearers) <= 1
    /\ api_key => logins = 0 /\ csrf_fetches = 0 /\ bearers \subseteq {ApiKeyBearer}

\* C7 amended: as long as no response was 401 at most one login exchange
\* has succeeded, the token it gave stays cached, and every request carried
\* the same bearer; with an API key no login and no CSRF fetch is ever
\* performed, a 401 included, and every request carries the static bearer.
C7_AtMostOneSuccessfulLogin ==
    /\ ~seen401 =>
          /\ issued <= 1
          /\ Cardinality(bearers) <= 1
          /\ (issued = 1 => token = 1 /\ bearers \subseteq {1})
    /\ api_key =>
          /\ logins = 0
          /\ csrf_fetches = 0
          /\ token = None
          /\ bearers \subseteq {ApiKeyBearer}

\* Two calls were made without any 401: the second reused the token of the
\* one login.
C7_Witness ==
    /\ calls = 2
    /\ ~seen401
    /\ pc = "returned"
    /\ logins = 1
    /\ bearers = {1}
    /\ headers.auth = 1

(* ------------------- claims on the dataset resolver ------------------- *)

\* The datasets of the platform that match the requested key.
Matching == {ds \in datasets : CheckDatasetMatch(ds, database_id, table_name)}

\* The strategies started so far.
Started == [i \in 1..Len(trail) |-> trail[i].strategy]

\* C8: _find_dataset returns None only after all four strategies have been
\* tried: a strategy that fails falls through to the next one.
C8_NoneOnlyAfterAllStrategies ==
    (fpc = "done" /\ found = NoDataset) => Started = Strategies

\* C9: the strategies are started in the order filtered query, bulk scan,
\* direct store query, probe; a strategy is started only once every earlier
\* one has ended without a match, no probe request is made before the probe
\* strategy is started, and a dataset is returned by the last strategy
\* started, so that no strategy runs after a match.
C9_StrategiesInOrder ==
    /\ Len(trail) <= Len(Strategies)
    /\ \A i \in 1..Len(trail) : trail[i].strategy = Strategies[i]
    /\ \A i \in 1..(Len(trail) - 1) : trail[i].outcome = "no_match"
    /\ (\E pid \in 1..MaxProbeId : tasks[pid] # "queued") => Len(trail) = 4
    /\ fpc \in {"filtered", "bulk", "direct", "probe"} =>
          /\ trail[Len(trail)] = [strategy |-> fpc, outcome |-> "running"]
          /\ found = NoDataset
    /\ (fpc = "done" /\ found # NoDataset) => trail[Len(trail)].outcome = "match"
    /\ fpc = "done" => trail[Len(trail)].outcome # "running"

\* The bulk scan found the dataset the filtered query had not listed.
C9_Witness ==
    /\ fpc = "done"
    /\ found \in Matching
    /\ trail = <<[strategy |-> "filtered", outcome |-> "no_match"],
                 [strategy |-> "bulk", outcome |-> "match"]>>

\* C10 as stated: when the first three strategies have ended without a match
\* and a matching dataset exists with an identifier in the probed range,
\* _find_dataset returns a matching dataset, not None.
C10_ProbeFindsExisting ==
    (/\ fpc = "done"
     /\ Len(trail) = 4
     /\ \E ds \in Matching : ds.id \in 1..MaxProbeId)
        => found \in Matching

\* C10 amended: when the first three strategies have ended without a match
\* and the probe's GET of some identifier has returned a dataset that
\* matches, _find_dataset returns a matching dataset of the platform, not None.
C10_ProbeFindsAnswered ==
    (/\ fpc = "done"
     /\ Len(trail) = 4
     /\ \E pid \in 1..MaxProbeId : results[pid] # NoDataset)
        => /\ found \in Matching
           /\ found.id \in 1..MaxProbeId
           /\ found = results[found.id]

\* The three first strategies found nothing, a probe failed, and the probe
\* of another identifier returned the dataset that _find_dataset returns.
C10_Witness ==
    /\ fpc = "done"
    /\ trail = <<[strategy |-> "filtered", outcome |-> "no_match"],
                 [strategy |-> "bulk", outcome |-> "no_match"],
                 [strategy |-> "direct", outcome |-> "no_match"],
                 [strategy |-> "probe", outcome |-> "match"]>>
    /\ found \in Matching
    /\ found.id = 2
    /\ results[1] = NoDataset
    /\ 1 \in consumed

(* ------------------- claims on the dashboard layout ------------------- *)

\* The keys of the nodes of a type.
NodesOf(doc, type) == {k \in DOMAIN doc : doc[k].type = type}

\* The elements of a list.
Elements(list) == {list[i] : i \in 1..Len(list)}

\* The chart ids a document shows, row by row in the order of GRID's children.
RowCharts(doc) ==
    LET rows == doc[GRID_ID].children
    IN [i \in 1..Len(rows) |-> doc[doc[rows[i]].children[1]].chartId]

\* A document without its node identifiers: per row, in order, the numbers
\* of children and the chart, width and height of its CHART node.
Shape(doc) ==
    LET rows == doc[GRID_ID].children
    IN [i \in 1..Len(rows) |->
          LET cell == doc[doc[rows[i]].children[1]]
          IN <<Len(doc[rows[i]].children), cell.type, cell.chartId,
               cell.width, cell.height>>]

\* C19: when add_charts_to_dashboard has returned, on either path, the
\* layout attached to the dashboard has exactly one ROW per input chart id,
\* in input order under the single GRID under ROOT, each ROW holding exactly
\* one CHART node that references that chart id at full width (12); and
\* building the layout for the same input with other node identifiers gives
\* a structurally equivalent layout.
C19_OneRowPerChart ==
    lpc = "returned" =>
        /\ attached[ROOT_ID].children = <<GRID_ID>>
        /\ Cardinality(NodesOf(attached, "GRID")) = 1
        /\ Cardinality(NodesOf(attached, "ROW")) = Len(chart_ids)
        /\ \A r \in NodesOf(attached, "ROW") : Len(attached[r].children) = 1
        /\ RowCharts(attached) = chart_ids
        /\ \A c \in NodesOf(attached, "CHART") : attached[c].width = FullWidth
        /\ \A s1, s2 \in Seeds :
              Shape(PositionJson(chart_ids, s1)) = Shape(PositionJson(chart_ids, s2))

\* The structural invariants of a layout document.
WellFormed(doc) ==
    LET rows == NodesOf(doc, "ROW")
        cells == NodesOf(doc, "CHART")
    IN /\ Elements(doc[GRID_ID].children) = rows
       /\ Len(doc[GRID_ID].children) = Cardinality(rows)
       /\ \A r \in rows :
             /\ Len(doc[r].children) = 1
             /\ doc[r].children[1] \in cells
             /\ doc[r].parents = <<ROOT_ID, GRID_ID>>
       /\ \A c \in cells :
             /\ Len(doc[c].parents) = 3
             /\ doc[c].parents[1] = ROOT_ID
             /\ doc[c].parents[2] = GRID_ID
             /\ doc[c].parents[3] \in rows
             /\ doc[doc[c].parents[3]].children = <<c>>
       /\ doc[GRID_ID].parents = <<ROOT_ID>>
       /\ doc[ROOT_ID].children = <<GRID_ID>>

\* C20: in every layout document produced, built by a call or attached to
\* the dashboard, the children of GRID are exactly the ROW nodes of the
\* document (each once), the only child of each ROW is a CHART node of the
\* document, and the parents of every ROW are ROOT, GRID and those of every
\* CHART are ROOT, GRID and its own ROW.
C20_LayoutWellFormed ==
    \A doc \in {position_json, attached} :
        doc # NoLayout => WellFormed(doc)

\* The API path has attached a document of two rows, built from the details
\* of two of three charts.
C20_Witness ==
    /\ lpc = "returned"
    /\ attached_by = "api"
    /\ Len(chart_ids) = 3
    /\ Len(attached[GRID_ID].children) = 2

(* ------------------ claims on the resource creators ------------------- *)

\* The ids of the platform's datasets that match (database_id, table_name)
\* with the name compared ignoring case.
MatchingIds ==
    {ds.id : ds \in {d \in datasets :
                       CheckDatasetMatch(d, database_id, table_name)}}

\* Whatever a call of _find_dataset returns is among FindDatasetIds.
ResolverReturnsMatch == (fpc = "done") => (found.id \in FindDatasetIds)

\* A second call of create_dataset, for the same (database_id, table_name),
\* has ended after a first call that returned.
SecondCallEnded ==
    /\ op = "create_dataset"
    /\ ccalls >= 2
    /\ previous.op = "create_dataset"
    /\ previous.ended = "returned"
    /\ cpc \in {"returned", "raised"}

\* C11: create_dataset called twice in sequence for the same (database_id,
\* table_name) returns the same dataset identifier both times: the second
\* call returns, and its identifier is the one the first call returned.
C11_SameIdentifierTwice ==
    SecondCallEnded =>
        /\ cpc = "returned"
        /\ created.id = previous.id

\* C11 as the code has it: when the second call returns, it returns the id
\* of a dataset of the platform that matches (database_id, table_name)
\* ignoring case, which is the first call's id whenever the platform holds
\* one such dataset only; otherwise it has raised after all its attempts
\* failed.
C11_SameIdentifierWhenUnique ==
    SecondCallEnded =>
        /\ previous.id \in MatchingIds
        /\ cpc = "returned" =>
              /\ created.id \in MatchingIds
              /\ Cardinality(MatchingIds) = 1 => created.id = previous.id
        /\ cpc = "raised" => tried = Attempts

\* The second call got the first call's identifier from the resolver.
C11_Witness ==
    /\ SecondCallEnded
    /\ cpc = "returned"
    /\ created.via = "resolver"
    /\ created.id = previous.id

Succeeded == SelectSeq(attempted, LAMBDA a : a.id # None)
Failed == SelectSeq(attempted, LAMBDA a : a.id = None)

\* C14: in a building run every plan item is attempted in plan order,
\* whatever became of the items before it; created_chart_ids holds exactly
\* the ids of the charts whose create_chart call returned, in plan order,
\* each the id of a chart of the platform; one failure is reported for
\* each item whose call raised; and the list passed to
\* add_charts_to_dashboard is created_chart_ids after all items were
\* attempted.
C14_FailedChartsOmitted ==
    bpc \in {"charts", "chart_call", "dashboard_call", "link_call"} =>
        /\ Len(attempted) = next_chart - 1
        /\ \A i \in 1..Len(attempted) :
              attempted[i].item = pending_dashboard_plan[i]
        /\ created_chart_ids = [i \in 1..Len(Succeeded) |-> Succeeded[i].id]
        /\ warnings = [i \in 1..Len(Failed) |-> Failed[i].item]
        /\ \A i \in 1..Len(created_chart_ids) : created_chart_ids[i] \in charts
        /\ bpc \in {"dashboard_call", "link_call"} =>
              Len(attempted) = Len(pending_dashboard_plan)
        /\ bpc = "link_call" => chart_ids = created_chart_ids

\* Of three plan items the second failed, and the charts of the first and
\* the third are passed to add_charts_to_dashboard.
C14_Witness ==
    /\ bpc = "link_call"
    /\ Len(pending_dashboard_plan) = 3
    /\ warnings = <<pending_dashboard_plan[2]>>
    /\ chart_ids = <<attempted[1].id, attempted[3].id>>

\* A run over three plan items in which the chart-creation API call failed
\* for the second item only (_request raised after its retries), and the
\* run has not ended.
SecondOfThreeFailed ==
    /\ bpc \in {"charts", "dashboard_call", "link_call"}
    /\ Len(pending_dashboard_plan) = 3
    /\ Len(attempted) = 3
    /\ ~attempted[1].api_failed
    /\ attempted[2].api_failed
    /\ ~attempted[3].api_failed

\* C15: when the chart-creation API call fails for plan 2 of three and
\* succeeds for plans 1 and 3, the build goes on with exactly charts 1 and 3
\* and reports exactly one chart failure.
C15_ApiFailureOmitsChart ==
    SecondOfThreeFailed =>
        /\ created_chart_ids = <<attempted[1].id, attempted[3].id>>
        /\ Len(warnings) = 1

\* C15 as the code has it: the chart of plan 2 is missing only when its
\* direct insertion fails as well; then the build goes on with exactly
\* charts 1 and 3, reports exactly one failure, that of plan 2, and passes
\* charts 1 and 3 to add_charts_to_dashboard.  When the direct insertion
\* commits, all three charts are passed and no failure is reported.
C15_ApiAndStoreFailureOmitsChart ==
    SecondOfThreeFailed =>
        /\ attempted[2].id = None =>
              /\ created_chart_ids = <<attempted[1].id, attempted[3].id>>
              /\ warnings = <<pending_dashboard_plan[2]>>
              /\ bpc = "link_call" => chart_ids = created_chart_ids
        /\ attempted[2].id # None =>
              /\ created_chart_ids =
                    <<attempted[1].id, attempted[2].id, attempted[3].id>>
              /\ warnings = <<>>

\* Plan 2 failed on both paths and the dashboard was linked with two charts.
C15_Witness ==
    /\ SecondOfThreeFailed
    /\ attempted[2].id = None
    /\ bpc = "link_call"
    /\ lpc = "returned"
    /\ Len(chart_ids) = 2

\* C16: after a reject the flow is in REVIEW and neither the dashboard of
\* the build nor any chart created for it remains on the platform.
C16_RejectDeletesDashboardAndCharts ==
    reported \in {"deleted", "delete_failed"} =>
        /\ FlowState = "REVIEW"
        /\ created_dashboard_id \notin dashboards
        /\ \A i \in 1..Len(created_chart_ids) : created_chart_ids[i] \notin charts

\* The transitions of the flow.
Transitions ==
    {<<"REVIEW", "BUILDING">>, <<"BUILDING", "VERIFY">>,
     <<"BUILDING", "REVIEW">>, <<"VERIFY", "REVIEW">>,
     <<"VERIFY", "CONFIRMED">>}

\* C17: every step that changes the state of the flow is one of REVIEW to
\* BUILDING (the form is submitted: the building flag and the pending plan
\* are set), BUILDING to VERIFY (add_charts_to_dashboard has returned),
\* BUILDING to REVIEW, VERIFY to REVIEW, VERIFY to CONFIRMED; a step into
\* VERIFY has recorded the id of a dashboard of the platform and its URL;
\* a step into CONFIRMED has removed the plan; and no step starts in
\* CONFIRMED.
C17_FlowTransitions ==
    [][ /\ FlowState' # FlowState => <<FlowState, FlowState'>> \in Transitions
        /\ (FlowState = "REVIEW" /\ FlowState' = "BUILDING") =>
              {"is_building_dashboard", "pending_dashboard_plan"}
                 \subseteq session_state'
        /\ (FlowState = "BUILDING" /\ FlowState' = "VERIFY") =>
              (lpc = "returned" /\ bpc = "link_call")
        /\ FlowState' = "VERIFY" =>
              /\ {"created_dashboard_id", "created_dashboard_url"}
                    \subseteq session_state'
              /\ created_dashboard_id' # None
              /\ created_dashboard_id' \in dashboards'
              /\ created_dashboard_url' = DashboardUrl(created_dashboard_id')
        /\ FlowState' = "CONFIRMED" => "dashboard_plan" \notin session_state'
        /\ FlowState # "CONFIRMED"
      ]_vars

\* The dashboard was accepted and is kept.
C17_Witness ==
    /\ FlowState = "CONFIRMED"
    /\ reported = "finalized"
    /\ created_dashboard_id \in dashboards

\* C18: a run in which no chart was created creates no dashboard and makes
\* no linking call, reports that no chart was created, and leaves the flow
\* in REVIEW with the plan in the session; create_dashboard is called only
\* with some chart created.
C18_NoChartsNoDashboard ==
    /\ reported = "no_charts" =>
          /\ bpc = "none"
          /\ FlowState = "REVIEW"
          /\ "dashboard_plan" \in session_state
          /\ created_chart_ids = <<>>
          /\ warnings = pending_dashboard_plan
          /\ run_calls \cap {"create_dashboard", "add_charts_to_dashboard"} = {}
    /\ bpc \in {"dashboard_call", "link_call"} => created_chart_ids # <<>>
    /\ reported \in {"process_failed", "complete"} => created_chart_ids # <<>>

\* All three charts of the plan failed.
C18_Witness ==
    /\ reported = "no_charts"
    /\ Len(pending_dashboard_plan) = 3
    /\ Len(warnings) = 3
    /\ FlowState = "REVIEW"

(* ------------------- claims on the order of the writes ---------------- *)

\* The positions of `writes` that hold a link write.
LinkPositions == {i \in 1..Len(writes) : writes[i].kind = "link"}

\* The positions of `writes` that hold a layout write of a path.
LayoutPositions(path) ==
    {j \in 1..Len(writes) : writes[j].kind = "layout" /\ writes[j].path = path}

\* C21: on both paths of add_charts_to_dashboard every link write comes
\* after a layout write of the same path that completed; when the layout
\* update of the API path failed, the API path has issued no link write; and
\* a call that returned has issued, on the path that wrote the layout, a link
\* write for every chart id.
C21_LinksAfterLayout ==
    /\ \A i \in LinkPositions :
          \E j \in LayoutPositions(writes[i].path) :
             j < i /\ writes[j].completed
    /\ (\E j \in LayoutPositions("api") : ~writes[j].completed) =>
          \A i \in LinkPositions : writes[i].path # "api"
    /\ lpc = "returned" =>
          {writes[i].chart : i \in {k \in LinkPositions :
                                      writes[k].path = attached_by}}
             = {chart_ids[i] : i \in 1..Len(chart_ids)}

\* The layout update of the API path failed, and the direct path wrote the
\* layout and then linked two charts.
C21_Witness ==
    /\ lpc = "returned"
    /\ attached_by = "direct"
    /\ Len(chart_ids) = 2
    /\ writes = <<LayoutWrite("api", FALSE), LayoutWrite("direct", TRUE)>>
                   \o LinkWrites("direct", chart_ids)

(* --------------------- claims on the key predicate -------------------- *)

\* C22: a dataset that _find_dataset returns, by whichever strategy, has the
\* requested database id and the requested table name ignoring case, and
\* carries the id of such a dataset of the platform.
C22_ReturnedDatasetMatches ==
    found # NoDataset =>
        /\ found.database = database_id
        /\ Lower(found.table_name) = Lower(table_name)
        /\ \E ds \in datasets :
              /\ ds.id = found.id
              /\ ds.database = database_id
              /\ Lower(ds.table_name) = Lower(table_name)

\* The filtered query returned a match on a platform that also holds a
\* dataset of the same table name ignoring case in another database.
C22_Witness ==
    /\ fpc = "done"
    /\ found # NoDataset
    /\ trail = <<[strategy |-> "filtered", outcome |-> "match"]>>
    /\ \E ds \in datasets :
          /\ Lower(ds.table_name) = Lower(table_name)
          /\ ds.database # database_id

\* C23: when the direct store query runs, it selects a stored dataset
\* exactly when _check_dataset_match accepts that dataset for the requested
\* key.
C23_DirectQueryAgreesWithCheck ==
    fpc = "direct" =>
        \A ds \in datasets :
            DirectRowMatch(ds, database_id, table_name)
               <=> CheckDatasetMatch(ds, database_id, table_name)

(* ------------------------ claims on chart plans ----------------------- *)

\* The dtype of the column of a name.
DtypeOf(name) ==
    (CHOOSE c \in {columns[i] : i \in 1..Len(columns)} : c.name = name).dtype

\* The column of a name is of a datetime type, or the name contains "date",
\* "year" or "month".
Temporal(name) ==
    /\ name \in ColumnNames(columns)
    /\ \/ DtypeOf(name) = "datetime64[ns]"
       \/ name \in {"order_date", "year"}

Categorical ==
    SelectSeq(columns, LAMBDA c : c.dtype \in {"object", "category"})

C26_ParamsNameColumns ==
    ppc \in {"build_params", "chat_params"} =>
        /\ params.metric \in {"count"} \cup ColumnNames(columns)
        /\ params.group \in {Absent} \cup ColumnNames(columns)

(* ------------------- claims on the store fallbacks -------------------- *)

\* The errors the direct write of the operation in progress raises when the
\* store is unreachable, when the table is missing, and on another failure.
ConnectivityError == DirectError(op, "unreachable")
MissingTableError == DirectError(op, "undefined_table")
InsertionError == DirectError(op, "error")

\* C27: when the direct store write of create_chart or create_dashboard
\* fails, the call raises after that one write with no resource created,
\* and the error it raises tells the failure: the error of an unreachable
\* store, the error of a missing table and the error of any other failure
\* are three different errors.
C27_StoreFailuresDistinct ==
    (op \in {"create_chart", "create_dashboard"}
        /\ store \in StoreOutcomes \ {"committed"}) =>
        /\ cpc = "raised"
        /\ created = NoResource
        /\ store = "unreachable" =>
              message \notin {MissingTableError, InsertionError}
        /\ store = "undefined_table" =>
              message \notin {ConnectivityError, InsertionError}
        /\ store = "error" =>
              message \notin {ConnectivityError, MissingTableError}

\* C29: the probe short-circuits on the first match: once the as_completed
\* loop has taken a matching result, no queued probe is started any more and
\* the return does not wait for the futures that are not done.
C29_NoProbeAfterMatch ==
    [][(fpc = "shutdown" /\ found # NoDataset) =>
          /\ \A pid \in 1..MaxProbeId :
                tasks[pid] = "queued" => tasks'[pid] = "queued"
          /\ ((\E pid \in 1..MaxProbeId : tasks[pid] # "done") =>
                ENABLED ProbeShutdown)]_vars

\* C30: during the probe the credential cache is written by the
\* coordinating thread only, whatever the workers meet (a 401 among it), and
\* at most one login exchange is in progress at any time.
C30_WorkersLeaveCredentials ==
    /\ \A wr \in cred_writes : wr.thread = Coordinator
    /\ Cardinality(LoginsInProgress) <= 1

\* C31: the error _request raises for a 4xx response carries the status and
\* the body of the response, whatever the 4xx status is.
C31_ClientErrorCarriesBody ==
    (pc = "raised" /\ error.cause = "raise_client") =>
        /\ error.status = resp
        /\ error.details = "body"

\* C32: a call of _request with retries >= 1 ends by returning a response
\* whose status is ok or by raising; it never returns a response that is not
\* ok, and it never falls out of its loop.
C32_ReturnsOkOrRaises ==
    max_retries >= 1 =>
        /\ pc \in {"send", "reauth", "resend", "returned", "raised"}
        /\ pc = "returned" => (resp # None /\ IsOk(resp))
        /\ pc = "raised" => (error # NoError /\ (resp = None \/ ~IsOk(resp)
                                                  \/ error.cause = "auth"))

\* A call has returned an ok response after a transient status and a sleep.
C32_Witness ==
    /\ pc = "returned"
    /\ max_retries >= 1
    /\ outcomes = "mixed"
    /\ Len(sleeps) >= 1
    /\ IsOk(resp)

\* C33: a cached CSRF token was fetched with the cached access token, and
\* the headers of a request never pair an access token with a CSRF token
\* that was fetched with another one.
C33_CsrfMatchesToken ==
    /\ (token # None /\ csrf_token # None) => csrf_token = token
    /\ (pc \in {"send", "resend"} /\ ~api_key /\ headers.csrf # None) =>
          headers.csrf = headers.auth

\* The elements of a sequence.
Range(seq) == {seq[i] : i \in 1..Len(seq)}

\* C34: when add_charts_to_dashboard has returned, every chart id of its
\* input is associated with the dashboard.
C34_ReturnedMeansLinked ==
    lpc = "returned" => Range(chart_ids) \subseteq linked

\* C35: when add_charts_to_dashboard has returned for a dashboard that had
\* charts in its layout, these charts are still in the layout, together
\* with the charts of the call.
C35_PriorChartsKept ==
    (lpc = "returned" /\ prior # <<>>) =>
        Range(prior) \cup Range(chart_ids) \subseteq Range(RowCharts(attached))

\* C39: the direct path is all-or-nothing: when it raises, the layout and
\* the association rows of the dashboard are what they were before it ran;
\* when it returns, the layout built from the input and a row for every
\* input chart id are in the store.
C39_DirectAllOrNothing ==
    [][lpc = "direct" =>
          /\ lpc' \in {"raised", "returned"}
          /\ lpc' = "raised" => (attached' = attached /\ linked' = linked)
          /\ lpc' = "returned" =>
                /\ RowCharts(attached') = chart_ids
                /\ attached' = position_json'
                /\ linked' = linked \cup Range(chart_ids)]_vars

\* The direct path has raised after the UPDATE and an INSERT were executed,
\* on a dashboard that had a chart.
C39_Witness ==
    /\ lpc = "raised"
    /\ prior # <<>>
    /\ Len(chart_ids) >= 2
    /\ Len(writes) >= 2
    /\ writes[Len(writes)].path = "direct"
    /\ writes[Len(writes)].kind = "link"
    /\ attached = PositionJson(prior, 0)
    /\ linked = Range(prior)

\* C38: BUILDING is transient: the building flag is deleted before the run
\* calls the client, the flag is set by a form submit only, a run starts
\* only on the flag, and when a run ends, however it ends, the flow is in
\* REVIEW or VERIFY.
C38_BuildingTransient ==
    [][ /\ run_calls' # run_calls => "is_building_dashboard" \notin session_state'
        /\ bpc' # "none" => "is_building_dashboard" \notin session_state'
        /\ (bpc = "none" /\ bpc' # "none") =>
              "is_building_dashboard" \in session_state
        /\ (bpc # "none" /\ bpc' = "none") =>
              FlowState' \in {"REVIEW", "VERIFY"}
        /\ ("is_building_dashboard" \in session_state'
               /\ "is_building_dashboard" \notin session_state) =>
              (FlowState = "REVIEW" /\ builds' = builds + 1)
      ]_vars

\* A build has failed and the form is shown again.
C38_Witness ==
    /\ reported = "process_failed"
    /\ bpc = "none"
    /\ FlowState = "REVIEW"
    /\ builds >= 1
    /\ run_calls # {}

\* C36: the current dashboard id of the session never refers to a dashboard
\* that a reject has deleted, and the chat never passes the id of a
\* dashboard that is not on the platform to add_charts_to_dashboard.
C36_NoDeletedDashboardInUse ==
    [][ /\ (reported' = "deleted"
               /\ "current_dashboard_id" \in session_state') =>
              current_dashboard_id' \in dashboards'
        /\ (chats' = chats + 1 /\ chat_dash' # None) =>
              chat_dash' \in dashboards'
      ]_vars

\* C37: when create_chart and add_charts_to_dashboard have both returned,
\* the reply of the chat is the success message, whether the session had a
\* current dashboard id or not; the failure message is given only when a
\* client call has raised.
C37_SuccessReplyInBothBranches ==
    /\ (chat_calls.create_chart = "returned"
          /\ chat_calls.add_charts_to_dashboard = "returned") =>
             chat_reply = "success"
    /\ chat_reply = "failed" =>
          \E c \in DOMAIN chat_calls : chat_calls[c] = "raised"

\* C40: plan validation keeps the row-count metric: a plan whose metric is
\* "count" has metric "count" after get_llama_suggestions validated it and
\* in the params the chat handler builds, whatever the columns of the
\* dataset are, and the metric of a validated plan is "count" or a column
\* of the dataset.
C40_CountMetricKept ==
    /\ (ppc = "validated" /\ suggested.metric = "count") =>
          chart_plan.metric = "count"
    /\ (ppc = "chat_params" /\ suggested.metric = "count") =>
          params.metric = "count"
    /\ ppc = "validated" =>
          chart_plan.metric \in {"count"} \cup ColumnNames(columns)

====
